---- MODULE Spec2Model ----
(***************************************************************************)
(* Request lifecycle of the returns / exchanges service: the record store  *)
(* (src/config/db-helpers.js), the submission, payment-finalisation, admin *)
(* and status-sync handlers (src/server.js, the last and most complete     *)
(* variant in the file, lines 1722-3712).                                  *)
(*                                                                         *)
(* Every await of a handler that separates a store read from the side      *)
(* effect or store write decided on it is a separate step, so that other   *)
(* handlers interleave there.                                              *)
(***************************************************************************)
EXTENDS Integers, Sequences, FiniteSets, TLC

VARIABLES
    store,      \* the requests table: request_id -> row
    env,        \* process.env of this deployment
    created,    \* what exists at the external systems, per request id
    calls,      \* createShiprocketReturnOrder invocations made by finalize, per id
    used,       \* request ids handed out so far
    fin,        \* in-flight finalizeRequestAfterPayment invocations
    adm,        \* in-flight approve invocations
    sync,       \* in-flight /api/admin/sync-status invocations
    response,   \* what the step just taken answered to its caller, if it answered
    storage,    \* the in-memory storage object: the admin tokens issued by login
    carrier,    \* how far the carrier has moved the reverse shipment, per request id
    lookup,     \* the /api/lookup-order invocation: its input and the order fetched
    shiprocket  \* shiprocketToken and shiprocketTokenExpiry, the clock, and the
                \* in-flight getShiprocketToken calls

vars == <<store, env, created, calls, used, fin, adm, sync, response, storage, carrier,
          lookup, shiprocket>>

----------------------------------------------------------------------------
(* Bounds *)

\* The counts of pickups, replacement orders, forward shipments and creation
\* calls per request stop at MaxEffects ("that many or more").
MaxEffects == 2

RequestIds == {"REQ-1"}
Finalizers == {"callback", "webhook"}
Admins == {"admin1", "admin2"}
Sweepers == {"sweep1"}

----------------------------------------------------------------------------
(* Values *)

Null == "null"
Stamp == "stamped"

Types == {"return", "exchange"}
Reasons == {"defective", "wrong_item", "changed_mind"}
PaymentIds == {"pay_1"}
PaymentAmounts == {"49"}
GatewayStatuses == {"captured", "authorized", "failed", "error"}
ShipmentIds == {"S1"}
Awbs == {"AWB1"}
NoteInputs == {"note"}
AdminPassword == "admin-secret"
WebhookSecret == "whsec"

Truthy(v) == v # Null

----------------------------------------------------------------------------
(* The record store *)

\* A faulty insert: a request without a paymentId is stored as awaiting payment.
createRequestAwaitingUnpaid(requestData) ==
    [ type          |-> requestData.type,
      status        |-> IF Truthy(requestData.awbNumber) THEN "scheduled"
                        ELSE IF Truthy(requestData.paymentId) THEN "pending"
                        ELSE "waiting_payment",
      reason        |-> requestData.reason,
      paymentId     |-> requestData.paymentId,
      paymentAmount |-> requestData.paymentAmount,
      awbNumber     |-> requestData.awbNumber,
      shipmentId    |-> requestData.shipmentId,
      orderNumber   |-> requestData.orderNumber,
      adminNotes    |-> << >>,
      pickedUpAt    |-> Null,
      inTransitAt   |-> Null,
      deliveredAt   |-> Null,
      approvedAt    |-> Null,
      rejectedAt    |-> Null,
      forwardAwbNumber |-> Null,
      forwardStatus |-> Null ]

\* The row createRequest inserts. The status column is computed from
\* awbNumber alone; requestData.status is not read.
createRequest(requestData) ==
    [ type          |-> requestData.type,
      status        |-> IF Truthy(requestData.awbNumber) THEN "scheduled" ELSE "pending",
      reason        |-> requestData.reason,
      paymentId     |-> requestData.paymentId,
      paymentAmount |-> requestData.paymentAmount,
      awbNumber     |-> requestData.awbNumber,
      shipmentId    |-> requestData.shipmentId,
      orderNumber   |-> requestData.orderNumber,
      adminNotes    |-> << >>,
      pickedUpAt    |-> Null,
      inTransitAt   |-> Null,
      deliveredAt   |-> Null,
      approvedAt    |-> Null,
      rejectedAt    |-> Null,
      forwardAwbNumber |-> Null,
      forwardStatus |-> Null ]

\* An updates object with nothing set.
NoUpdates ==
    [ status |-> Null, hasNotes |-> FALSE, adminNotes |-> << >>,
      awbNumber |-> Null, shipmentId |-> Null,
      paymentId |-> Null, paymentAmount |-> Null,
      pickedUpAt |-> Null, inTransitAt |-> Null, deliveredAt |-> Null,
      forwardAwbNumber |-> Null, forwardStatus |-> Null ]

\* A faulty update: a rejection stamps approved_at as well.
UpdatedRowStampingApproval(row, updates) ==
    [ row EXCEPT
        !.status     = IF Truthy(updates.status) THEN updates.status ELSE @,
        !.adminNotes = IF updates.hasNotes THEN updates.adminNotes ELSE @,
        !.approvedAt = IF updates.status \in {"approved", "rejected"} THEN Stamp ELSE @,
        !.rejectedAt = IF updates.status = "rejected" THEN Stamp ELSE @,
        !.awbNumber  = IF Truthy(updates.awbNumber) THEN updates.awbNumber ELSE @,
        !.shipmentId = IF Truthy(updates.shipmentId) THEN updates.shipmentId ELSE @ ]

\* A faulty update: payment_id is written from updates as well.
UpdatedRowWithPayment(row, updates) ==
    [ row EXCEPT
        !.status     = IF Truthy(updates.status) THEN updates.status ELSE @,
        !.adminNotes = IF updates.hasNotes THEN updates.adminNotes ELSE @,
        !.approvedAt = IF updates.status = "approved" THEN Stamp ELSE @,
        !.rejectedAt = IF updates.status = "rejected" THEN Stamp ELSE @,
        !.awbNumber  = IF Truthy(updates.awbNumber) THEN updates.awbNumber ELSE @,
        !.shipmentId = IF Truthy(updates.shipmentId) THEN updates.shipmentId ELSE @,
        !.paymentId  = IF Truthy(updates.paymentId) THEN updates.paymentId ELSE @ ]

\* The row after updateRequestStatus: status and admin_notes when given
\* (an undefined property is dropped from the request body), approved_at /
\* rejected_at by status, awb_number / shipment_id when truthy.  No other
\* property of updates reaches the table.
UpdatedRow(row, updates) ==
    [ row EXCEPT
        !.status     = IF Truthy(updates.status) THEN updates.status ELSE @,
        !.adminNotes = IF updates.hasNotes THEN updates.adminNotes ELSE @,
        !.approvedAt = IF updates.status = "approved" THEN Stamp ELSE @,
        !.rejectedAt = IF updates.status = "rejected" THEN Stamp ELSE @,
        !.awbNumber  = IF Truthy(updates.awbNumber) THEN updates.awbNumber ELSE @,
        !.shipmentId = IF Truthy(updates.shipmentId) THEN updates.shipmentId ELSE @ ]

\* updateRequestStatus: an update keyed by request_id; no row, no change.
updateRequestStatus(st, requestId, updates) ==
    IF requestId \in DOMAIN st
    THEN [st EXCEPT ![requestId] = UpdatedRow(@, updates)]
    ELSE st

\* getRequestById found a row.
Found(requestId) == requestId \in DOMAIN store

----------------------------------------------------------------------------
(* External systems *)

\* What the aggregator's create call hands back through
\* createShiprocketReturnOrder / createShiprocketForwardOrder: a shipment with
\* an AWB, a shipment whose AWB is not assigned yet, or nothing (null, a
\* validation error, an exception caught inside the helper).
NoResponse == [shipment_id |-> Null, awb_code |-> Null]

SrResponses ==
    {NoResponse} \cup
    { [shipment_id |-> s, awb_code |-> a] : s \in ShipmentIds, a \in Awbs \cup {Null} }

Count(n) == IF n < MaxEffects THEN n + 1 ELSE n

NothingCreated == [returns |-> 0, forwards |-> 0, orders |-> 0]

\* The aggregator created a reverse pickup for requestId iff it answered
\* with a shipment id.
ReturnCreated(cr, requestId, resp) ==
    IF Truthy(resp.shipment_id)
    THEN [cr EXCEPT ![requestId].returns = Count(@)]
    ELSE cr

----------------------------------------------------------------------------
(* Responses *)

\* What a handler answered: which handler, for which request, success or the
\* kind of error, and the fields of the answer read below (alreadyProcessed
\* and status of finalizeRequestAfterPayment's result, updated of the sync).
NoAnswer ==
    [ handler |-> Null, requestId |-> Null, result |-> Null,
      alreadyProcessed |-> FALSE, status |-> Null, updated |-> 0 ]

Answer(handler, requestId, result) ==
    [NoAnswer EXCEPT !.handler = handler, !.requestId = requestId, !.result = result]

----------------------------------------------------------------------------
(* Submission: /api/submit-exchange and /api/submit-return *)

isFeeWaived(reason) == reason = "defective" \/ reason = "wrong_item"

\* A faulty check: any payment the gateway could fetch counts as paid.
PaymentFetched(gw) == gw # "error"

\* payment.status of the payment fetched from the gateway is captured or
\* authorized; "error" stands for a fetch that threw and for a server
\* without gateway credentials.
PaymentSuccessful(gw) == gw \in {"captured", "authorized"}

\* An order name is the sequence of its parts: a leading "#" when it has one,
\* then its number.  The shop names its orders with the "#".
ShopifyOrderNames == { <<"#", "1001">> }

\* req.body.orderNumber of a form without one.
NoOrderNumber == << >>

\* orderName.startsWith('#')
startsWith(orderName, prefix) == Len(orderName) > 0 /\ orderName[1] = prefix

\* orderName.substring(1)
substring(orderName, start) == SubSeq(orderName, start + 1, Len(orderName))

\* The alternate form of an order name: the leading # removed or added.
altName(orderName) ==
    IF startsWith(orderName, "#") THEN substring(orderName, 1)
    ELSE <<"#">> \o orderName

\* shopifyAPI('orders.json?name=...') answers with an order: the shop has an
\* order of exactly that name.
shopifyOrders(name) == name \in ShopifyOrderNames

\* The order fetch of the submit handlers and of the creation helpers: the
\* name as given, then its alternate form when that returned no order.
FetchOriginalOrder(orderName) ==
    shopifyOrders(orderName) \/ shopifyOrders(altName(orderName))

\* The order fetch of approve's pickup branch: the name as stored, once.
FetchOrderForApproval(orderName) == shopifyOrders(orderName)

\* The handler up to and including createRequest.  gw is the gateway's answer
\* to payments.fetch, sr the aggregator's answer to the pickup creation; the
\* creation helper returns null when the order was not found.
SubmitRequest(requestId, type, orderNumber, reason, paymentId, paymentAmount, gw, sr) ==
    LET verifying       == Truthy(paymentId) /\ ~isFeeWaived(reason)
        paymentVerified == verifying /\ PaymentSuccessful(gw)
        needsPayment    == ~isFeeWaived(reason) /\ ~paymentVerified
        attempt         == ~needsPayment /\ env.SHIPROCKET_EMAIL
        srResponse      == IF FetchOriginalOrder(orderNumber) THEN sr ELSE NoResponse
        got             == attempt /\ Truthy(srResponse.shipment_id)
        awbNumber       == IF got THEN srResponse.awb_code ELSE Null
        shipmentId      == IF got THEN srResponse.shipment_id ELSE Null
        requestData     ==
            [ type |-> type, orderNumber |-> orderNumber, reason |-> reason,
              paymentId |-> paymentId, paymentAmount |-> paymentAmount,
              awbNumber |-> awbNumber, shipmentId |-> shipmentId,
              status |-> IF needsPayment THEN "waiting_payment"
                         ELSE IF Truthy(awbNumber) \/ Truthy(shipmentId)
                              THEN "scheduled" ELSE "pending" ]
    IN  IF verifying /\ ~paymentVerified
        THEN \* 400 / 500 before anything is created
             /\ response' = Answer("submit", Null, "error")
             /\ UNCHANGED <<store, env, created, calls, used, fin, adm, sync, storage, carrier, lookup, shiprocket>>
        ELSE /\ created' = IF attempt THEN ReturnCreated(created, requestId, srResponse)
                           ELSE created
             /\ store' = [ id \in DOMAIN store \cup {requestId} |->
                             IF id = requestId THEN createRequest(requestData)
                             ELSE store[id] ]
             /\ used' = used \cup {requestId}
             /\ response' = Answer("submit", requestId, "success")
             /\ UNCHANGED <<env, calls, fin, adm, sync, storage, carrier, lookup, shiprocket>>

\* requestId is drawn fresh: 'REQ-' and a random number.
SubmitExchange ==
    \E requestId \in RequestIds \ (used \cup DOMAIN store),
       orderNumber \in ShopifyOrderNames,
       reason \in Reasons, paymentId \in PaymentIds \cup {Null},
       gw \in GatewayStatuses, sr \in SrResponses :
       \E paymentAmount \in IF Truthy(paymentId) THEN PaymentAmounts ELSE {Null} :
          SubmitRequest(requestId, "exchange", orderNumber, reason, paymentId, paymentAmount, gw, sr)

SubmitReturn ==
    \E requestId \in RequestIds \ (used \cup DOMAIN store),
       orderNumber \in ShopifyOrderNames,
       reason \in Reasons, paymentId \in PaymentIds \cup {Null},
       gw \in GatewayStatuses, sr \in SrResponses :
       \E paymentAmount \in IF Truthy(paymentId) THEN PaymentAmounts ELSE {Null} :
          SubmitRequest(requestId, "return", orderNumber, reason, paymentId, paymentAmount, gw, sr)

\* req.body.orderNumber when the form has one: the order's name as the shop
\* shows it, or its number alone.
OrderNumbers == { <<"#", "1001">>, <<"1001">> }

\* req.body.items: absent, a string that JSON.parse rejects, the string of an
\* empty list, or the string of a list of items.
ItemsInputs == {"absent", "unparsable", "empty", "items"}

\* The items the handler goes on with: the parsed list, [] when the string
\* does not parse, undefined when the form had none.
ParseItems(items) == IF items = "unparsable" THEN "empty" ELSE items

\* The whole handler on any form, complete or not.  Nothing checks the order
\* number, the items or the reason: a missing order number only makes the
\* order lookup fail inside its try / catch; undefined items make the
\* exchange handler throw on items.length, which its outer catch answers with
\* a 500, while the return handler never reads them.
SubmitForm(requestId, type, orderNumber, items, reason, paymentId, paymentAmount, gw, sr) ==
    IF type = "exchange" /\ ParseItems(items) = "absent"
    THEN /\ response' = Answer("submit", Null, "error")
         /\ UNCHANGED <<store, env, created, calls, used, fin, adm, sync, storage, carrier, lookup, shiprocket>>
    ELSE SubmitRequest(requestId, type, orderNumber, reason, paymentId, paymentAmount, gw, sr)

\* A submission of any form.  requestId is 'REQ-' and a random five-digit
\* number, drawn without looking at the table or at the ids handed out
\* before.  A draw that hits an id still in the table is left out: what the
\* insert does then depends on the table's constraints.
SubmitAnyForm ==
    \E requestId \in RequestIds \ DOMAIN store, type \in Types,
       orderNumber \in OrderNumbers \cup {NoOrderNumber}, items \in ItemsInputs,
       reason \in Reasons \cup {Null}, paymentId \in PaymentIds \cup {Null},
       gw \in GatewayStatuses, sr \in SrResponses :
       \E paymentAmount \in IF Truthy(paymentId) THEN PaymentAmounts ELSE {Null} :
          SubmitForm(requestId, type, orderNumber, items, reason,
                     paymentId, paymentAmount, gw, sr)

----------------------------------------------------------------------------
(* finalizeRequestAfterPayment, called by /api/finalize-payment ("callback") *)
(* and by /api/razorpay-webhook ("webhook")                                  *)

IdleFin ==
    [ pc |-> "idle", requestId |-> Null, updates |-> NoUpdates, srResponse |-> NoResponse ]

\* A faulty guard: a pending row is finalized again.
AlreadyProcessedUnlessPending(request) ==
    request.status \notin {"waiting_payment", "pending"}

\* The guard on the row read by getRequestById: only a row in waiting_payment
\* is finalized.
AlreadyProcessed(request) == request.status # "waiting_payment"

\* getRequestById and the two early returns; otherwise the updates are
\* prepared and the invocation goes on to the pickup creation, or straight to
\* the save when the aggregator is not configured.
finalizeRequestAfterPayment(f, requestId, paymentId, paymentAmount) ==
    /\ fin[f].pc = "idle"
    /\ IF ~Found(requestId)
       THEN /\ response' = Answer("finalize", requestId, "not_found")
            /\ fin' = fin
       ELSE IF AlreadyProcessed(store[requestId])
       THEN /\ response' = [Answer("finalize", requestId, "success")
                              EXCEPT !.alreadyProcessed = TRUE]
            /\ fin' = fin
       ELSE /\ response' = NoAnswer
            /\ fin' = [fin EXCEPT ![f] =
                 [ pc |-> IF env.SHIPROCKET_EMAIL THEN "pickup" ELSE "save",
                   requestId |-> requestId,
                   updates |-> [NoUpdates EXCEPT !.paymentId = paymentId,
                                                 !.paymentAmount = paymentAmount,
                                                 !.status = "pending"],
                   srResponse |-> NoResponse ]]
    /\ UNCHANGED <<store, env, created, calls, used, adm, sync, storage, carrier, lookup, shiprocket>>

\* A call from /api/finalize-payment or from /api/razorpay-webhook.
FinalizeRead(f) ==
    \E requestId \in RequestIds, paymentId \in PaymentIds,
       paymentAmount \in PaymentAmounts :
       finalizeRequestAfterPayment(f, requestId, paymentId, paymentAmount)

\* Faulty updates: the shipment is recorded and the status left as prepared.
PickupUpdatesKeepingStatus(updates, sr) ==
    IF Truthy(sr.shipment_id)
    THEN [updates EXCEPT !.awbNumber = sr.awb_code,
                         !.shipmentId = sr.shipment_id]
    ELSE updates

\* Faulty updates: the record is scheduled whatever the aggregator answered.
PickupUpdatesAlwaysScheduled(updates, sr) ==
    [updates EXCEPT !.status = "scheduled",
                    !.awbNumber = sr.awb_code,
                    !.shipmentId = sr.shipment_id]

\* The updates after the aggregator answered.
PickupUpdates(updates, sr) ==
    IF Truthy(sr.shipment_id)
    THEN [updates EXCEPT !.status = "scheduled",
                         !.awbNumber = sr.awb_code,
                         !.shipmentId = sr.shipment_id]
    ELSE updates

\* await createShiprocketReturnOrder(..., null)
FinalizePickup(f) ==
    /\ fin[f].pc = "pickup"
    /\ \E sr \in SrResponses :
          /\ created' = ReturnCreated(created, fin[f].requestId, sr)
          /\ fin' = [fin EXCEPT ![f].pc = "save",
                                ![f].srResponse = sr,
                                ![f].updates = PickupUpdates(@, sr)]
    /\ calls' = [calls EXCEPT ![fin[f].requestId] = Count(@)]
    /\ response' = NoAnswer
    /\ UNCHANGED <<store, env, used, adm, sync, storage, carrier, lookup, shiprocket>>

\* A faulty last step: success is returned and the updates are not saved.
FinalizeWithoutSave(f) ==
    /\ fin[f].pc = "save"
    /\ fin' = [fin EXCEPT ![f] = IdleFin]
    /\ response' = [Answer("finalize", fin[f].requestId, "success")
                      EXCEPT !.status = fin[f].updates.status]
    /\ UNCHANGED <<store, env, created, calls, used, adm, sync, storage, carrier, lookup, shiprocket>>

\* await updateRequestStatus(requestId, updates); return success
FinalizeSave(f) ==
    /\ fin[f].pc = "save"
    /\ store' = updateRequestStatus(store, fin[f].requestId, fin[f].updates)
    /\ fin' = [fin EXCEPT ![f] = IdleFin]
    /\ response' = [Answer("finalize", fin[f].requestId, "success")
                      EXCEPT !.status = fin[f].updates.status]
    /\ UNCHANGED <<env, created, calls, used, adm, sync, storage, carrier, lookup, shiprocket>>

----------------------------------------------------------------------------
(* /api/razorpay-webhook *)

Events == {"payment.captured", "payment.authorized", "payment.failed"}

\* The raw body of a webhook call, as the fields the handler reads from it:
\* event, payment.notes.requestId, payment.id and the amount.
RawBodies ==
    { <<event, requestId, paymentId, amount>> :
        event \in Events, requestId \in RequestIds \cup {Null},
        paymentId \in PaymentIds, amount \in PaymentAmounts }

\* The hex digest of the HMAC-SHA256 of a body under a key: equal digests
\* for equal key and body only.
HmacSha256(secret, rawBody) == <<secret>> \o rawBody

\* The x-razorpay-signature header: absent, or a digest made with the
\* deployment's secret or with another key, of this body or of another one.
NoSignature == << >>

SignatureHeaders ==
    {NoSignature} \cup
    { HmacSha256(key, rawBody) : key \in {WebhookSecret, "guess"}, rawBody \in RawBodies }

\* The handler up to the first await of finalizeRequestAfterPayment.
RazorpayWebhook(signature, rawBody) ==
    LET secret    == env.RAZORPAY_WEBHOOK_SECRET
        event     == rawBody[1]
        requestId == rawBody[2]
        paymentId == rawBody[3]
        amount    == rawBody[4]
    IN  IF /\ Truthy(secret) /\ signature # NoSignature
           /\ signature # HmacSha256(secret, rawBody)
        THEN \* 400 Invalid signature
             /\ response' = Answer("webhook", Null, "invalid_signature")
             /\ UNCHANGED <<store, env, created, calls, used, fin, adm, sync, storage, carrier, lookup, shiprocket>>
        ELSE IF event \in {"payment.captured", "payment.authorized"} /\ Truthy(requestId)
        THEN finalizeRequestAfterPayment("webhook", requestId, paymentId, amount)
        ELSE /\ response' = Answer("webhook", Null, "ok")
             /\ UNCHANGED <<store, env, created, calls, used, fin, adm, sync, storage, carrier, lookup, shiprocket>>

Webhook ==
    \E signature \in SignatureHeaders, rawBody \in RawBodies :
       RazorpayWebhook(signature, rawBody)

----------------------------------------------------------------------------
(* Admin: approve *)

IdleAdm ==
    [ pc |-> "idle", requestId |-> Null, branch |-> Null, orderNumber |-> NoOrderNumber ]

\* notes || ''
NotesOrEmpty(notes) == IF Truthy(notes) THEN <<notes>> ELSE << >>

\* A faulty guard: every approval of an exchange resolves it.
NeedsResolutionAlways(requestDetails) ==
    requestDetails.type = "exchange"

\* The guard of the exchange resolution: the replacement order and the
\* forward shipment are created unless requestDetails says approved.
NeedsResolution(requestDetails) ==
    requestDetails.type = "exchange" /\ requestDetails.status # "approved"

\* The branch the handler takes on requestDetails: the initial approval of a
\* pending request, the exchange resolution, or the bare status change.
ApproveBranch(requestDetails) ==
    IF requestDetails.status = "pending" THEN "pickup"
    ELSE IF NeedsResolution(requestDetails) THEN "resolve"
    ELSE "approve"

\* getRequestById at the top of the handler; every later decision of this
\* invocation is taken on the requestDetails read here.
ApproveRequest(a, requestId) ==
    /\ adm[a].pc = "idle"
    /\ IF ~Found(requestId)
       THEN /\ response' = Answer("approve", requestId, "not_found")
            /\ adm' = adm
       ELSE /\ response' = NoAnswer
            /\ adm' = [adm EXCEPT ![a] =
                 [ pc |-> "act", requestId |-> requestId,
                   branch |-> ApproveBranch(store[requestId]),
                   orderNumber |-> store[requestId].orderNumber ]]
    /\ UNCHANGED <<store, env, created, calls, used, fin, sync, storage, carrier, lookup, shiprocket>>

ApproveRead(a) == \E requestId \in RequestIds : ApproveRequest(a, requestId)

\* A faulty initial approval: the admin's notes are saved although the pickup
\* could not be created.
ApprovePendingSavingNotes(a, notes, orderFound, sr) ==
    LET requestId == adm[a].requestId
        attempt   == env.SHIPROCKET_EMAIL /\ orderFound
        got       == attempt /\ Truthy(sr.shipment_id)
        updates   == [NoUpdates EXCEPT
                        !.shipmentId = sr.shipment_id,
                        !.awbNumber  = sr.awb_code,
                        !.status     = "scheduled",
                        !.hasNotes   = TRUE,
                        !.adminNotes = NotesOrEmpty(notes) \o <<"Pickup scheduled">>]
        failed    == [NoUpdates EXCEPT
                        !.hasNotes   = TRUE,
                        !.adminNotes = NotesOrEmpty(notes) \o <<"Pickup failed">>]
    IN  /\ created' = IF attempt THEN ReturnCreated(created, requestId, sr) ELSE created
        /\ store' = updateRequestStatus(store, requestId, IF got THEN updates ELSE failed)
        /\ response' = Answer("approve", requestId, IF got THEN "success" ELSE "error")

\* 1. Initial approval: the pickup is created and the row moves to scheduled,
\* or the handler answers 400 / 500 and writes nothing.
ApprovePending(a, notes, orderFound, sr) ==
    LET requestId == adm[a].requestId
        attempt   == env.SHIPROCKET_EMAIL /\ orderFound
        got       == attempt /\ Truthy(sr.shipment_id)
        updates   == [NoUpdates EXCEPT
                        !.shipmentId = sr.shipment_id,
                        !.awbNumber  = sr.awb_code,
                        !.status     = "scheduled",
                        !.hasNotes   = TRUE,
                        !.adminNotes = NotesOrEmpty(notes) \o <<"Pickup scheduled">>]
    IN  /\ created' = IF attempt THEN ReturnCreated(created, requestId, sr) ELSE created
        /\ store' = IF got THEN updateRequestStatus(store, requestId, updates) ELSE store
        /\ response' = Answer("approve", requestId, IF got THEN "success" ELSE "error")

\* 2. Final approval: for an exchange, the replacement order (null on any
\* failure, which leaves no note) and the forward shipment (a note either
\* way), then status approved.
ApproveFinal(a, notes, orderOk, fwd) ==
    LET requestId == adm[a].requestId
        resolve   == adm[a].branch = "resolve"
        forward   == resolve /\ env.SHIPROCKET_EMAIL
        gotOrder  == resolve /\ orderOk
        gotFwd    == forward /\ Truthy(fwd.shipment_id)
        notes1    == NotesOrEmpty(notes)
        notes2    == IF gotOrder THEN notes1 \o <<"Order created">> ELSE notes1
        notes3    == IF forward
                     THEN notes2 \o << IF gotFwd THEN "Shipment created" ELSE "Shipment failed" >>
                     ELSE notes2
        updates   == [NoUpdates EXCEPT
                        !.status = "approved",
                        !.hasNotes = TRUE, !.adminNotes = notes3,
                        !.forwardAwbNumber = IF gotFwd THEN fwd.awb_code ELSE Null,
                        !.forwardStatus = IF gotFwd THEN "scheduled" ELSE Null]
    IN  /\ created' = [created EXCEPT
                          ![requestId].orders   = IF gotOrder THEN Count(@) ELSE @,
                          ![requestId].forwards = IF gotFwd THEN Count(@) ELSE @]
        /\ store' = updateRequestStatus(store, requestId, updates)
        /\ response' = Answer("approve", requestId, "success")

\* The second step of approve at an aggregator that assigns the AWB when it
\* creates the shipment.
ApproveActWithAwb(a) ==
    /\ adm[a].pc = "act"
    /\ \E notes \in NoteInputs, orderOk \in BOOLEAN,
          sr \in { x \in SrResponses : Truthy(x.awb_code) } :
          IF adm[a].branch = "pickup"
          THEN ApprovePending(a, notes,
                              orderOk /\ FetchOrderForApproval(adm[a].orderNumber), sr)
          ELSE ApproveFinal(a, notes,
                            orderOk /\ FetchOriginalOrder(adm[a].orderNumber), sr)
    /\ adm' = [adm EXCEPT ![a] = IdleAdm]
    /\ UNCHANGED <<env, calls, used, fin, sync, storage, carrier, lookup, shiprocket>>

ApproveAct(a) ==
    /\ adm[a].pc = "act"
    /\ \E notes \in NoteInputs, orderOk \in BOOLEAN, sr \in SrResponses :
          IF adm[a].branch = "pickup"
          THEN ApprovePending(a, notes,
                              orderOk /\ FetchOrderForApproval(adm[a].orderNumber), sr)
          ELSE ApproveFinal(a, notes,
                            orderOk /\ FetchOriginalOrder(adm[a].orderNumber), sr)
    /\ adm' = [adm EXCEPT ![a] = IdleAdm]
    /\ UNCHANGED <<env, calls, used, fin, sync, storage, carrier, lookup, shiprocket>>

----------------------------------------------------------------------------
(* Admin: reject, mark-delivered, delete-requests *)

\* A faulty answer: the helper's result is not looked at.
UpdateAnswerUnchecked(handler, requestId) ==
    Answer(handler, requestId, "success")

\* What an admin handler answers after updateRequestStatus: the helper gives
\* null when no row matched.
UpdateAnswer(handler, requestId) ==
    Answer(handler, requestId, IF Found(requestId) THEN "success" ELSE "not_found")

RejectRequest(requestId, notes) ==
    /\ store' = updateRequestStatus(store, requestId,
                  [NoUpdates EXCEPT !.status = "rejected",
                                    !.hasNotes = Truthy(notes),
                                    !.adminNotes = NotesOrEmpty(notes)])
    /\ response' = UpdateAnswer("reject", requestId)
    /\ UNCHANGED <<env, created, calls, used, fin, adm, sync, storage, carrier, lookup, shiprocket>>

Reject == \E requestId \in RequestIds, notes \in NoteInputs : RejectRequest(requestId, notes)

MarkRequestDelivered(requestId) ==
    /\ store' = updateRequestStatus(store, requestId,
                  [NoUpdates EXCEPT !.status = "delivered",
                                    !.deliveredAt = Stamp])
    /\ response' = UpdateAnswer("mark-delivered", requestId)
    /\ UNCHANGED <<env, created, calls, used, fin, adm, sync, storage, carrier, lookup, shiprocket>>

MarkDelivered == \E requestId \in RequestIds : MarkRequestDelivered(requestId)

\* deleteRequests: a hard removal of the rows named.
deleteRequests(st, requestIds) ==
    [ id \in DOMAIN st \ requestIds |-> st[id] ]

DeleteRequests ==
    /\ \E requestIds \in (SUBSET RequestIds) \ {{}} :
          store' = deleteRequests(store, requestIds)
    /\ response' = Answer("delete-requests", Null, "success")
    /\ UNCHANGED <<env, created, calls, used, fin, adm, sync, storage, carrier, lookup, shiprocket>>

----------------------------------------------------------------------------
(* Carrier status text *)

\* A status text is its sequence of words; a keyword is a sequence of
\* upper-case words, found by String.includes on the upper-cased text.
ToUpperCase(w) ==
    CASE w = "Shipment"  -> "SHIPMENT"
      [] w = "Picked"    -> "PICKED"
      [] w = "Up"        -> "UP"
      [] w = "by"        -> "BY"
      [] w = "Courier"   -> "COURIER"
      [] w = "In"        -> "IN"
      [] w = "Transit"   -> "TRANSIT"
      [] w = "Delivered" -> "DELIVERED"
      [] w = "delivered" -> "DELIVERED"
      [] w = "Assigned"  -> "ASSIGNED"
      [] w = "Out"       -> "OUT"
      [] w = "For"       -> "FOR"
      [] w = "Pickup"    -> "PICKUP"
      [] w = "Generated" -> "GENERATED"
      [] w = "Initiated" -> "INITIATED"
      [] w = "pickup"    -> "PICKUP"
      [] w = "generated" -> "GENERATED"
      [] w = "picked"    -> "PICKED"
      [] w = "up"        -> "UP"
      [] w = "in"        -> "IN"
      [] w = "transit"   -> "TRANSIT"
      [] w = "Delivery"  -> "DELIVERY"
      [] w = "Scheduled" -> "SCHEDULED"
      [] w = "Shipped"   -> "SHIPPED"
      [] w = "Return"    -> "RETURN"
      [] w = "Received"  -> "RECEIVED"
      [] w = "Closed"    -> "CLOSED"
      [] w = "Cancelled" -> "CANCELLED"
      [] w = "rejected"  -> "REJECTED"
      [] w = "Label"     -> "LABEL"
      [] w = "Manifested" -> "MANIFESTED"
      [] w = "rto"       -> "RTO"
      [] OTHER           -> w

toUpperCase(text) == [i \in 1..Len(text) |-> ToUpperCase(text[i])]

includes(text, keyword) ==
    \E i \in 1..(Len(text) - Len(keyword) + 1) :
        SubSeq(text, i, i + Len(keyword) - 1) = keyword

CarrierTexts ==
    { << >>,
      <<"Shipment", "Picked", "Up", "by", "Courier">>,
      <<"In", "Transit">>,
      <<"Delivered">>,
      <<"AWB", "Assigned">>,
      <<"Out", "For", "Pickup">>,
      <<"RTO", "Initiated">> }

\* Status texts in the spellings a carrier may use, grouped by text: upper
\* case, capitalised and lower case.  Several hold keywords of more than one
\* status.
StatusTextVariants ==
    { { <<"PICKUP", "GENERATED">>, <<"Pickup", "Generated">>, <<"pickup", "generated">> },
      { <<"DELIVERED">>, <<"Delivered">>, <<"delivered">> },
      { <<"RTO", "DELIVERED">>, <<"RTO", "Delivered">>, <<"rto", "delivered">> },
      { <<"IN", "TRANSIT">>, <<"In", "Transit">>, <<"in", "transit">> },
      { <<"PICKED", "UP">>, <<"Picked", "Up">>, <<"picked", "up">> },
      { <<"Out", "For", "Delivery">> },
      { <<"Out", "For", "Pickup">> },
      { <<"Pickup", "Scheduled">> },
      { <<"Shipped">> },
      { <<"Return", "Received">> },
      { <<"Closed">> },
      { <<"Cancelled">> },
      { <<"REJECTED">>, <<"rejected">> },
      { <<"AWB", "Assigned">> },
      { <<"Label", "Generated">> },
      { <<"Manifested">> } }

StatusTexts == UNION StatusTextVariants

\* A faulty chain: the keywords of scheduled are tried before those of
\* picked_up.
MapReturnStatusScheduledFirst(current, currentStatus) ==
    LET statusUpper == toUpperCase(currentStatus)
        has(k) == includes(statusUpper, k)
    IN  IF has(<<"DELIVERED">>) \/ has(<<"CLOSED">>) \/ has(<<"RETURN", "RECEIVED">>)
        THEN "delivered"
        ELSE IF has(<<"SCHEDULED">>) \/ has(<<"GENERATED">>) \/ has(<<"AWB", "ASSIGNED">>)
        THEN "scheduled"
        ELSE IF has(<<"PICKED", "UP">>) \/ has(<<"PICKUP", "GENERATED">>)
        THEN "picked_up"
        ELSE IF has(<<"IN", "TRANSIT">>) \/ has(<<"SHIPPED">>)
                \/ has(<<"OUT", "FOR", "DELIVERY">>)
        THEN "in_transit"
        ELSE IF has(<<"RTO">>) \/ has(<<"REJECTED">>) \/ has(<<"CANCELLED">>)
        THEN "rejected"
        ELSE current

\* The keyword chain of the return-status sync: first match wins; a text that
\* matches nothing keeps the status of the row as it was read.
MapReturnStatus(current, currentStatus) ==
    LET statusUpper == toUpperCase(currentStatus)
        has(k) == includes(statusUpper, k)
    IN  IF has(<<"DELIVERED">>) \/ has(<<"CLOSED">>) \/ has(<<"RETURN", "RECEIVED">>)
        THEN "delivered"
        ELSE IF has(<<"PICKED", "UP">>) \/ has(<<"PICKUP", "GENERATED">>)
        THEN "picked_up"
        ELSE IF has(<<"IN", "TRANSIT">>) \/ has(<<"SHIPPED">>)
                \/ has(<<"OUT", "FOR", "DELIVERY">>)
        THEN "in_transit"
        ELSE IF has(<<"SCHEDULED">>) \/ has(<<"GENERATED">>) \/ has(<<"AWB", "ASSIGNED">>)
        THEN "scheduled"
        ELSE IF has(<<"RTO">>) \/ has(<<"REJECTED">>) \/ has(<<"CANCELLED">>)
        THEN "rejected"
        ELSE current

----------------------------------------------------------------------------
(* /api/admin/sync-status *)

ActiveStatuses == {"pending", "scheduled", "picked_up", "in_transit"}

\* What a tracking lookup answers: nothing usable (an error, no
\* tracking_data), or tracking_data with a status text and maybe an AWB.
NoTracking == [tracking_data |-> FALSE, current_status |-> << >>, awb_code |-> Null]

TrackingResponses ==
    {NoTracking} \cup
    { [tracking_data |-> TRUE, current_status |-> t, awb_code |-> a] :
        t \in CarrierTexts, a \in Awbs \cup {Null} }

IdleSync ==
    [ pc |-> "idle", snapshot |-> << >>, todo |-> << >>, updated |-> 0,
      updates |-> NoUpdates ]

\* The forward-shipment fields of a row as getAllRequests returns it:
\* convertFromSnakeCase has no forward field, so both are undefined whatever
\* the table holds.
ForwardView(r) == [type |-> r.type, forwardAwbNumber |-> Null, forwardStatus |-> Null]

\* The guard of the forward-status sync, in the filter and in the loop.
SyncsForward(req) ==
    req.type = "exchange" /\ Truthy(req.forwardAwbNumber) /\ req.forwardStatus # "delivered"

\* A faulty filter: a row is selected only until its pickup has happened.
IsActiveUntilPickup(r) ==
    r.status \in {"pending", "scheduled"} /\ (Truthy(r.awbNumber) \/ Truthy(r.shipmentId))

\* A faulty filter: every row with a shipment is selected, whatever its status.
IsActiveAnyStatus(r) ==
    Truthy(r.awbNumber) \/ Truthy(r.shipmentId)

\* The rows the sweep works on, as read by getAllRequests.  The rows come
\* back through convertFromSnakeCase, which carries no forward-shipment
\* field, so only the first disjunct of the filter can select a row.
IsActive(r) ==
    \/ r.status \in ActiveStatuses /\ (Truthy(r.awbNumber) \/ Truthy(r.shipmentId))
    \/ SyncsForward(ForwardView(r))

\* The fields of a row the loop reads.
SyncView(r) == [status |-> r.status, awbNumber |-> r.awbNumber, shipmentId |-> r.shipmentId]

\* The active rows in the order the loop takes them.
RECURSIVE ToSeq(_)
ToSeq(S) ==
    IF S = {} THEN << >>
    ELSE LET m == CHOOSE x \in S : TRUE
         IN  <<m>> \o ToSeq(S \ {m})

SyncAnswer(updated) == [Answer("sync-status", Null, "success") EXCEPT !.updated = updated]

SyncStart(s) ==
    /\ sync[s].pc = "idle"
    /\ LET active == { id \in DOMAIN store : IsActive(store[id]) }
       IN  IF active = {}
           THEN /\ sync' = sync
                /\ response' = SyncAnswer(0)
           ELSE /\ sync' = [sync EXCEPT ![s] =
                              [ pc |-> "loop",
                                snapshot |-> [id \in active |-> SyncView(store[id])],
                                todo |-> ToSeq(active),
                                updated |-> 0,
                                updates |-> NoUpdates ]]
                /\ response' = NoAnswer
    /\ UNCHANGED <<store, env, created, calls, used, fin, adm, storage, carrier, lookup, shiprocket>>

\* Faulty updates: every row whose lookup answered with a status text is
\* written.
SyncUpdatesUnconditional(req, trackingData) ==
    LET currentStatus == trackingData.current_status
        newAwb        == trackingData.awb_code
        newStatus     == MapReturnStatus(req.status, currentStatus)
    IN  IF /\ trackingData.tracking_data
           /\ currentStatus # << >>
        THEN [NoUpdates EXCEPT
                !.status      = newStatus,
                !.deliveredAt = IF newStatus = "delivered" THEN Stamp ELSE Null,
                !.pickedUpAt  = IF newStatus = "picked_up" THEN Stamp ELSE Null,
                !.inTransitAt = IF newStatus = "in_transit" THEN Stamp ELSE Null,
                !.awbNumber   = newAwb]
        ELSE NoUpdates

\* The updates the sweep writes for one row of its snapshot, or NoUpdates
\* when it writes nothing.
SyncUpdates(req, trackingData) ==
    LET currentStatus == trackingData.current_status
        newAwb        == trackingData.awb_code
        newStatus     == MapReturnStatus(req.status, currentStatus)
    IN  IF /\ trackingData.tracking_data
           /\ currentStatus # << >>
           /\ (newStatus # req.status \/ (Truthy(newAwb) /\ newAwb # req.awbNumber))
        THEN [NoUpdates EXCEPT
                !.status      = newStatus,
                !.deliveredAt = IF newStatus = "delivered" THEN Stamp ELSE Null,
                !.pickedUpAt  = IF newStatus = "picked_up" THEN Stamp ELSE Null,
                !.inTransitAt = IF newStatus = "in_transit" THEN Stamp ELSE Null,
                !.awbNumber   = newAwb]
        ELSE NoUpdates

\* The lookup by AWB when the row has one, then by shipment id when that
\* gave no tracking_data and the row has a shipment id: whichever answered
\* last, and nothing when the row has neither.
Lookup(req) ==
    IF Truthy(req.awbNumber) \/ Truthy(req.shipmentId)
    THEN TrackingResponses
    ELSE {NoTracking}

\* How the await of updateRequestStatus ends inside the loop: the row is
\* written; the store answers an error object, which the helper drops; or the
\* call throws into the catch of this turn.
WriteOutcomes == {"ok", "error", "threw"}

\* The loop goes on to the next row of its list; after the last row the
\* handler answers success with the count.
SyncAdvance(s, updated) ==
    LET rest == Tail(sync[s].todo)
    IN  IF rest = << >>
        THEN /\ sync' = [sync EXCEPT ![s] = IdleSync]
             /\ response' = SyncAnswer(updated)
        ELSE /\ sync' = [sync EXCEPT ![s].pc = "loop", ![s].todo = rest,
                                     ![s].updated = updated, ![s].updates = NoUpdates]
             /\ response' = NoAnswer

\* A faulty turn: a lookup without tracking data, or a write that throws,
\* ends the sweep with an error.
SyncTurnAborting(s, trackingData, write) ==
    LET requestId == Head(sync[s].todo)
        req       == sync[s].snapshot[requestId]
        updates   == SyncUpdates(req, trackingData)
        writes    == updates # NoUpdates
    IN  IF ~trackingData.tracking_data \/ (writes /\ write = "threw")
        THEN /\ store' = store
             /\ sync' = [sync EXCEPT ![s] = IdleSync]
             /\ response' = Answer("sync-status", Null, "error")
        ELSE /\ store' = IF writes /\ write = "ok"
                         THEN updateRequestStatus(store, requestId, updates)
                         ELSE store
             /\ SyncAdvance(s, IF writes THEN sync[s].updated + 1 ELSE sync[s].updated)

\* One turn of the loop on the answer of the lookups: the mapping, the write
\* and updatedCount++ when the write call returned.
SyncTurn(s, trackingData, write) ==
    LET requestId == Head(sync[s].todo)
        req       == sync[s].snapshot[requestId]
        updates   == SyncUpdates(req, trackingData)
        writes    == updates # NoUpdates
        updated   == IF writes /\ write # "threw"
                     THEN sync[s].updated + 1 ELSE sync[s].updated
    IN  /\ store' = IF writes /\ write = "ok"
                    THEN updateRequestStatus(store, requestId, updates)
                    ELSE store
        /\ SyncAdvance(s, updated)

\* One turn of the loop with a store that takes every write: the lookups, the
\* mapping and the write.  After the last row the handler answers with the
\* number of writes.
SyncStep(s) ==
    /\ sync[s].pc = "loop"
    /\ \E trackingData \in Lookup(sync[s].snapshot[Head(sync[s].todo)]) :
          SyncTurn(s, trackingData, "ok")
    /\ UNCHANGED <<env, created, calls, used, fin, adm, storage, carrier, lookup, shiprocket>>

\* One turn of the loop with a store whose write may fail.
SyncStepUnreliable(s) ==
    /\ sync[s].pc = "loop"
    /\ \E trackingData \in Lookup(sync[s].snapshot[Head(sync[s].todo)]),
          write \in WriteOutcomes :
          SyncTurn(s, trackingData, write)
    /\ UNCHANGED <<env, created, calls, used, fin, adm, storage, carrier, lookup, shiprocket>>

\* One turn of the loop on a lookup that answered with a status text in any
\* spelling and no AWB.
TrackingWith(text) == [tracking_data |-> TRUE, current_status |-> text, awb_code |-> Null]

SyncClassify(s) ==
    /\ sync[s].pc = "loop"
    /\ \E text \in StatusTexts : SyncTurn(s, TrackingWith(text), "ok")
    /\ UNCHANGED <<env, created, calls, used, fin, adm, storage, carrier, lookup, shiprocket>>

\* What a carrier whose state does not change answers for a shipment, lookup
\* after lookup: a status text, one of them matching no keyword, with the AWB
\* the record may hold, another AWB or none.  carrier holds, per request, the
\* position of its report in this list.
CarrierReports ==
    << [current_status |-> <<"AWB", "Assigned">>, awb_code |-> Null],
       [current_status |-> <<"AWB", "Assigned">>, awb_code |-> "AWB1"],
       [current_status |-> <<"AWB", "Assigned">>, awb_code |-> "AWB2"],
       [current_status |-> <<"Shipment", "Picked", "Up", "by", "Courier">>, awb_code |-> "AWB1"],
       [current_status |-> <<"In", "Transit">>, awb_code |-> "AWB2"],
       [current_status |-> <<"Delivered">>, awb_code |-> Null],
       [current_status |-> <<"Out", "For", "Pickup">>, awb_code |-> "AWB2"],
       [current_status |-> <<"Out", "For", "Pickup">>, awb_code |-> Null] >>

ReportedLookup(requestId) ==
    [ tracking_data  |-> TRUE,
      current_status |-> CarrierReports[carrier[requestId]].current_status,
      awb_code       |-> CarrierReports[carrier[requestId]].awb_code ]

\* One turn of the loop on the report of that carrier.
SyncReported(s) ==
    /\ sync[s].pc = "loop"
    /\ SyncTurn(s, ReportedLookup(Head(sync[s].todo)), "ok")
    /\ UNCHANGED <<env, created, calls, used, fin, adm, storage, carrier, lookup, shiprocket>>

\* The texts the carrier reports along the reverse track, in order; carrier
\* holds the position of each request's shipment in it.
CarrierTrack ==
    << <<"AWB", "Assigned">>,
       <<"Shipment", "Picked", "Up", "by", "Courier">>,
       <<"In", "Transit">>,
       <<"Delivered">> >>

\* The carrier moves a shipment one stage on.
CarrierAdvances ==
    /\ \E id \in DOMAIN carrier :
          /\ Found(id) /\ Truthy(store[id].shipmentId)
          /\ carrier[id] < Len(CarrierTrack)
          /\ carrier' = [carrier EXCEPT ![id] = @ + 1]
    /\ response' = NoAnswer
    /\ UNCHANGED <<store, env, created, calls, used, fin, adm, sync, storage, lookup, shiprocket>>

\* What the lookups answer for a shipment the carrier is moving along
\* CarrierTrack: nothing usable, or the text of its current stage.
TrackedLookup(requestId, req) ==
    {NoTracking} \cup
    { [tracking_data |-> TRUE, current_status |-> CarrierTrack[carrier[requestId]],
       awb_code |-> a] :
        a \in IF Truthy(req.awbNumber) THEN {req.awbNumber} ELSE Awbs \cup {Null} }

\* One turn of the loop up to its write: the lookups and the mapping.  The
\* write is awaited after them, so other handlers run in between.
SyncLookup(s) ==
    /\ sync[s].pc = "loop"
    /\ LET requestId == Head(sync[s].todo)
           req       == sync[s].snapshot[requestId]
       IN  \E trackingData \in TrackedLookup(requestId, req) :
              LET updates == SyncUpdates(req, trackingData)
              IN  IF updates # NoUpdates
                  THEN /\ sync' = [sync EXCEPT ![s].pc = "write", ![s].updates = updates]
                       /\ response' = NoAnswer
                  ELSE SyncAdvance(s, sync[s].updated)
    /\ UNCHANGED <<store, env, created, calls, used, fin, adm, storage, carrier, lookup, shiprocket>>

\* That turn when the lookups succeed: they answer with the text of the
\* shipment's current stage.
SyncLookupAnswered(s) ==
    /\ sync[s].pc = "loop"
    /\ LET requestId == Head(sync[s].todo)
           req       == sync[s].snapshot[requestId]
       IN  \E trackingData \in TrackedLookup(requestId, req) \ {NoTracking} :
              LET updates == SyncUpdates(req, trackingData)
              IN  IF updates # NoUpdates
                  THEN /\ sync' = [sync EXCEPT ![s].pc = "write", ![s].updates = updates]
                       /\ response' = NoAnswer
                  ELSE SyncAdvance(s, sync[s].updated)
    /\ UNCHANGED <<store, env, created, calls, used, fin, adm, storage, carrier, lookup, shiprocket>>

\* await updateRequestStatus(req.requestId, updatesArr); updatedCount++
SyncWrite(s) ==
    /\ sync[s].pc = "write"
    /\ store' = updateRequestStatus(store, Head(sync[s].todo), sync[s].updates)
    /\ SyncAdvance(s, sync[s].updated + 1)
    /\ UNCHANGED <<env, created, calls, used, fin, adm, storage, carrier, lookup, shiprocket>>

----------------------------------------------------------------------------
(* /api/lookup-order: the match of the order against the email or phone *)

\* Strings of this handler are sequences of characters.
ToLowerCase(c) ==
      CASE c = "A" -> "a"
        [] c = "X" -> "x"
        [] OTHER -> c

toLowerCase(s) == [i \in 1..Len(s) |-> ToLowerCase(s[i])]

RECURSIVE trim(_)
trim(s) ==
    IF s = << >> THEN s
    ELSE IF Head(s) = " " THEN trim(Tail(s))
    ELSE IF s[Len(s)] = " " THEN trim(SubSeq(s, 1, Len(s) - 1))
    ELSE s

IsDigit(c) == c \in {"0", "1", "2", "3", "4", "5", "6", "7", "8", "9"}

\* s.replace(/\D/g, '')
Digits(s) == SelectSeq(s, IsDigit)

\* The number of digits the phone match works on.
PhoneDigits == 10

\* s.slice(-n): the last n characters, or all of s when it has fewer.
sliceLast(s, n) == IF Len(s) <= n THEN s ELSE SubSeq(s, Len(s) - n + 1, Len(s))

\* s.endsWith(suffix)
endsWith(s, suffix) ==
    Len(suffix) <= Len(s) /\ SubSeq(s, Len(s) - Len(suffix) + 1, Len(s)) = suffix

\* What req.body.email holds: an email or a phone number, as typed.
LookupInputs ==
    { <<"A", "@", "X", ".", "c", "o", "m">>,
      <<"a", "@", "x", ".", "c", "o", "m">>,
      <<" ", "a", "@", "x", ".", "c", "o", "m", " ">>,
      <<"b", "@", "x", ".", "c", "o", "m">>,
      <<"9", "8", "7", "6", "5", "4", "3", "2", "1", "0">>,
      <<"+", "9", "1", " ", "9", "8", "7", "6", "5", " ", "4", "3", "2", "1", "0">>,
      <<"9", "1", "9", "8", "7", "6", "5", "4", "3", "2", "1", "0">>,
      <<"1", "2", "3", "4", "5", "4", "3", "2", "1", "0">>,
      <<"4", "3", "2", "1", "0">>,
      <<"9", "8", "7", "6", "5", "4", "3", "2", "1">>,
      << >>,
      <<"a", "@", "x", ".", "c", "o">>,
      <<"0", "0", "0", "0", "0", "4", "3", "2", "1", "0">> }

\* The order the shop returns, as the fields the match reads: customer.email,
\* customer.phone and shipping_address.phone, empty when the order has none.
ShopOrders ==
    { [ email |-> <<"a", "@", "x", ".", "c", "o", "m">>,
        phone |-> <<"+", "9", "1", "-", "9", "8", "7", "6", "5", "-", "4", "3", "2", "1", "0">>,
        shipping_phone |-> << >> ],
      [ email |-> <<"A", "@", "x", ".", "c", "o", "m">>,
        phone |-> << >>,
        shipping_phone |-> <<"9", "8", "7", "6", "5", "4", "3", "2", "1", "0">> ],
      [ email |-> << >>,
        phone |-> <<"4", "3", "2", "1", "0">>,
        shipping_phone |-> << >> ],
      [ email |-> << >>,
        phone |-> << >>,
        shipping_phone |-> << >> ],
      [ email |-> <<"b", "@", "x", ".", "c", "o", "m">>,
        phone |-> <<"1", "2", "3", "4", "5", "4", "3", "2", "1", "0">>,
        shipping_phone |-> <<"+", "9", "1", "9", "8", "7", "6", "5", "4", "3", "2", "1", "0">> ],
      [ email |-> << >>,
        phone |-> <<"9", "8", "7", "6", "5", "4", "3", "2", "1">>,
        shipping_phone |-> <<"(", "0", ")", " ", "4", "3", "2", "1", "0">> ],
      [ email |-> <<"c", "@", "x", ".", "c", "o", "m">>,
        phone |-> <<"9", "8", "7", "6", "5", " ", "4", "3", "2", "1", "0">>,
        shipping_phone |-> <<"1", "2", "3", "4", "5", " ", "4", "3", "2", "1", "0">> ],
      [ email |-> << >>,
        phone |-> <<"0", "0", "-", "9", "1", "9", "8", "7", "6", "5", "-", "4", "3", "2", "1", "0">>,
        shipping_phone |-> << >> ] }

\* A faulty match: the phone is compared whatever the number of its digits.
MatchesOrderAnyLength(email, o) ==
    LET normalizedInput == trim(toLowerCase(email))
        inputDigits     == Digits(normalizedInput)
        customerEmail   == toLowerCase(o.email)
        customerPhone   == Digits(o.phone)
        shippingPhone   == Digits(o.shipping_phone)
    IN  \/ customerEmail # << >> /\ customerEmail = normalizedInput
        \/ endsWith(customerPhone, sliceLast(inputDigits, PhoneDigits))
        \/ endsWith(shippingPhone, sliceLast(inputDigits, PhoneDigits))

\* The predicate of data.orders.find.
MatchesOrder(email, o) ==
    LET normalizedInput == trim(toLowerCase(email))
        inputDigits     == Digits(normalizedInput)
        customerEmail   == toLowerCase(o.email)
        customerPhone   == Digits(o.phone)
        shippingPhone   == Digits(o.shipping_phone)
    IN  \/ customerEmail # << >> /\ customerEmail = normalizedInput
        \/ /\ Len(inputDigits) >= PhoneDigits
           /\ \/ endsWith(customerPhone, sliceLast(inputDigits, PhoneDigits))
              \/ endsWith(shippingPhone, sliceLast(inputDigits, PhoneDigits))

NoOrder == [email |-> << >>, phone |-> << >>, shipping_phone |-> << >>]

IdleLookup == [pc |-> "idle", email |-> << >>, order |-> NoOrder]

\* The handler up to the match: the order is fetched by its number, under
\* either form; a failing API is answered with a 500, no order with a 404.
LookupFetch ==
    /\ lookup.pc # "match"
    /\ \E orderNumber \in OrderNumbers, email \in LookupInputs, shopify \in BOOLEAN :
          IF ~shopify
          THEN /\ response' = Answer("lookup-order", Null, "error")
               /\ lookup' = IdleLookup
          ELSE IF ~FetchOriginalOrder(orderNumber)
          THEN /\ response' = Answer("lookup-order", Null, "not_found")
               /\ lookup' = IdleLookup
          ELSE \E o \in ShopOrders :
                  /\ response' = NoAnswer
                  /\ lookup' = [pc |-> "match", email |-> email, order |-> o]
    /\ UNCHANGED <<store, env, created, calls, used, fin, adm, sync, storage, carrier, shiprocket>>

\* The match, and the answer: the order's details, or a 404.
LookupMatch ==
    /\ lookup.pc = "match"
    /\ response' = Answer("lookup-order", Null,
                          IF MatchesOrder(lookup.email, lookup.order)
                          THEN "success" ELSE "not_found")
    /\ lookup' = [lookup EXCEPT !.pc = "done"]
    /\ UNCHANGED <<store, env, created, calls, used, fin, adm, sync, storage, carrier, shiprocket>>

----------------------------------------------------------------------------
(* getShiprocketToken *)

\* The clock is Date.now(), in milliseconds; it is moved on a day at a time,
\* up to MaxDays days.
Day == 24 * 60 * 60 * 1000
MaxDays == 11

\* Logins the aggregator answers with a token; its tokens are numbered in the
\* order it issues them, and 0 stands for null.
MaxLogins == 3

\* The validity the helper gives a token: 10 days.
TokenValidity == 10 * 24 * 60 * 60 * 1000

TokenCallers == {"caller1", "caller2"}

IdleCaller == [pc |-> "idle", token |-> 0]

\* The module's variables at start (both null), the clock, the number of
\* tokens issued, and nobody calling.
ColdStart ==
    [ shiprocketToken |-> 0, shiprocketTokenExpiry |-> 0, now |-> 0, issued |-> 0,
      callers |-> [c \in TokenCallers |-> IdleCaller] ]

\* A faulty test: a cached token is used whatever its expiry.
CachedWhateverExpiry ==
    shiprocket.shiprocketToken # 0

\* shiprocketToken && shiprocketTokenExpiry && Date.now() < shiprocketTokenExpiry
Cached ==
    /\ shiprocket.shiprocketToken # 0
    /\ shiprocket.shiprocketTokenExpiry # 0
    /\ shiprocket.now < shiprocket.shiprocketTokenExpiry

\* The call up to its first await: the cached token is returned, or the
\* login request is sent.
GetShiprocketToken(c) ==
    /\ shiprocket.callers[c].pc \notin {"login", "issued"}
    /\ shiprocket' =
         [shiprocket EXCEPT !.callers[c] =
            IF Cached THEN [pc |-> "returned", token |-> shiprocket.shiprocketToken]
            ELSE [pc |-> "login", token |-> 0]]
    /\ response' = NoAnswer
    /\ UNCHANGED <<store, env, created, calls, used, fin, adm, sync, storage, carrier, lookup>>

\* The aggregator handles a login request: it issues its next token, which
\* travels back in the response.
LoginIssued(c) ==
    /\ shiprocket.callers[c].pc = "login"
    /\ shiprocket.issued < MaxLogins
    /\ LET token == shiprocket.issued + 1
       IN  shiprocket' =
             [shiprocket EXCEPT
                !.issued = token,
                !.callers[c] = [pc |-> "issued", token |-> token]]
    /\ response' = NoAnswer
    /\ UNCHANGED <<store, env, created, calls, used, fin, adm, sync, storage, carrier, lookup>>

\* The await of the login ends: with the token of the response, which is
\* cached with its expiry and returned, or with an error, which the helper
\* throws.
LoginAnswers(c) ==
    /\ \/ /\ shiprocket.callers[c].pc = "issued"
          /\ LET token == shiprocket.callers[c].token
             IN  shiprocket' =
                   [shiprocket EXCEPT
                      !.shiprocketToken = token,
                      !.shiprocketTokenExpiry = shiprocket.now + TokenValidity,
                      !.callers[c] = [pc |-> "returned", token |-> token]]
       \/ /\ shiprocket.callers[c].pc = "login"
          /\ shiprocket' = [shiprocket EXCEPT !.callers[c] = [pc |-> "threw", token |-> 0]]
    /\ response' = NoAnswer
    /\ UNCHANGED <<store, env, created, calls, used, fin, adm, sync, storage, carrier, lookup>>

\* A day passes.
Tick ==
    /\ shiprocket.now < MaxDays * Day
    /\ shiprocket' = [shiprocket EXCEPT !.now = @ + Day]
    /\ response' = NoAnswer
    /\ UNCHANGED <<store, env, created, calls, used, fin, adm, sync, storage, carrier, lookup>>

----------------------------------------------------------------------------
(* Admin authentication: /api/admin/login and authenticateAdmin *)

\* crypto.randomBytes(32).toString('hex')
Tokens == {"token1"}

\* What a client sends as password, and as bearer token (Null: none sent).
Passwords == {AdminPassword, "guess"}
BearerTokens == {Null, AdminPassword, "guess"} \cup Tokens

\* The middleware lets the request through: a Bearer header whose token is
\* ADMIN_PASSWORD or one of the issued tokens.
authenticateAdmin(token) ==
    Truthy(token) /\ (token = env.ADMIN_PASSWORD \/ token \in storage.adminTokens)

\* password === process.env.ADMIN_PASSWORD, both possibly undefined.
Login(password) ==
    /\ IF password = env.ADMIN_PASSWORD
       THEN /\ \E token \in Tokens \ storage.adminTokens :
                  storage' = [storage EXCEPT !.adminTokens = @ \cup {token}]
            /\ response' = Answer("login", Null, "success")
       ELSE /\ storage' = storage
            /\ response' = Answer("login", Null, "unauthorized")
    /\ UNCHANGED <<store, env, created, calls, used, fin, adm, sync, carrier, lookup, shiprocket>>

\* 401 from the middleware: the handler does not run.
Unauthorized(handler) ==
    /\ response' = Answer(handler, Null, "unauthorized")
    /\ UNCHANGED <<store, env, created, calls, used, fin, adm, sync, storage, carrier, lookup, shiprocket>>

\* GET /api/admin/requests: getAllRequests and the answer.
ListRequests ==
    /\ response' = Answer("list", Null, "success")
    /\ UNCHANGED <<store, env, created, calls, used, fin, adm, sync, storage, carrier, lookup, shiprocket>>

\* An admin route called with a bearer token: the middleware, then the handler.
AdminOperation(token) ==
    \/ IF authenticateAdmin(token) THEN ListRequests ELSE Unauthorized("list")
    \/ IF authenticateAdmin(token) THEN ApproveRead("admin1") ELSE Unauthorized("approve")
    \/ IF authenticateAdmin(token) THEN Reject ELSE Unauthorized("reject")
    \/ IF authenticateAdmin(token) THEN MarkDelivered ELSE Unauthorized("mark-delivered")
    \/ IF authenticateAdmin(token) THEN DeleteRequests ELSE Unauthorized("delete-requests")
    \/ IF authenticateAdmin(token) THEN SyncStart("sweep1") ELSE Unauthorized("sync-status")

----------------------------------------------------------------------------
(* Specifications *)

\* A request that was submitted with a fee due and no verified payment, as
\* the submission handlers describe it (status waiting_payment, no shipment).
AwaitingPayment(type) ==
    [ createRequest([ type |-> type, orderNumber |-> <<"#", "1001">>,
                      reason |-> "changed_mind",
                      paymentId |-> Null, paymentAmount |-> Null,
                      awbNumber |-> Null, shipmentId |-> Null,
                      status |-> "waiting_payment" ])
      EXCEPT !.status = "waiting_payment" ]

\* The table outlives the process: at start it is empty, or it already holds
\* a request that awaits its payment.  The deployment has its admin password
\* and its webhook secret configured.
Start(deployments) ==
    /\ \/ store = << >>
       \/ \E id \in RequestIds, type \in Types : store = [x \in {id} |-> AwaitingPayment(type)]
    /\ env \in deployments
    /\ created = [id \in RequestIds |-> NothingCreated]
    /\ calls = [id \in RequestIds |-> 0]
    /\ used = {}
    /\ fin = [f \in Finalizers |-> IdleFin]
    /\ adm = [a \in Admins |-> IdleAdm]
    /\ sync = [s \in Sweepers |-> IdleSync]
    /\ response = NoAnswer
    /\ storage = [adminTokens |-> {}]
    /\ carrier = [id \in RequestIds |-> 1]
    /\ lookup = IdleLookup
    /\ shiprocket = ColdStart

Init ==
    Start([ SHIPROCKET_EMAIL : BOOLEAN,
            ADMIN_PASSWORD : {AdminPassword},
            RAZORPAY_WEBHOOK_SECRET : {WebhookSecret} ])

\* Submission and payment finalisation, with the admin's one-step overrides.
PaymentNext ==
    \/ SubmitExchange
    \/ SubmitReturn
    \/ \E f \in Finalizers : FinalizeRead(f)
    \/ \E f \in Finalizers : FinalizePickup(f)
    \/ \E f \in Finalizers : FinalizeSave(f)
    \/ Reject
    \/ MarkDelivered
    \/ DeleteRequests

\* Submission and the admin console.
AdminNext ==
    \/ SubmitExchange
    \/ SubmitReturn
    \/ \E a \in Admins : ApproveRead(a)
    \/ \E a \in Admins : ApproveAct(a)
    \/ Reject
    \/ MarkDelivered
    \/ DeleteRequests

\* Submission, the sweep and the admin actions it can race with.
SyncNext ==
    \/ SubmitExchange
    \/ SubmitReturn
    \/ \E s \in Sweepers : SyncStart(s)
    \/ \E s \in Sweepers : SyncStep(s)
    \/ ApproveRead("admin1")
    \/ ApproveAct("admin1")
    \/ Reject
    \/ MarkDelivered

Next == PaymentNext \/ AdminNext \/ SyncNext

Spec == Init /\ [][Next]_vars

SpecPayment == Init /\ [][PaymentNext]_vars

SpecAdmin == Init /\ [][AdminNext]_vars

SpecSync == Init /\ [][SyncNext]_vars

\* Submission and one admin whose approve calls run one after the other, with
\* no other admin operation in between.
ApproveNext ==
    \/ SubmitExchange
    \/ SubmitReturn
    \/ ApproveRead("admin1")
    \/ ApproveAct("admin1")

SpecApprove == Init /\ [][ApproveNext]_vars

\* Every operation that is addressed by a request id, one caller of each,
\* with submission and deletion deciding whether the id is in the table.
LookupNext ==
    \/ SubmitExchange
    \/ SubmitReturn
    \/ FinalizeRead("callback")
    \/ FinalizePickup("callback")
    \/ FinalizeSave("callback")
    \/ ApproveRead("admin1")
    \/ ApproveAct("admin1")
    \/ Reject
    \/ MarkDelivered
    \/ DeleteRequests

SpecLookup == Init /\ [][LookupNext]_vars

\* A deployment with or without a webhook secret.
InitWebhook ==
    Start([ SHIPROCKET_EMAIL : BOOLEAN,
            ADMIN_PASSWORD : {AdminPassword},
            RAZORPAY_WEBHOOK_SECRET : {WebhookSecret, Null} ])

\* Submission and the gateway's webhook calls.
WebhookNext ==
    \/ SubmitExchange
    \/ SubmitReturn
    \/ Webhook
    \/ FinalizePickup("webhook")
    \/ FinalizeSave("webhook")

SpecWebhook == InitWebhook /\ [][WebhookNext]_vars

\* Submissions of any form, and the admin's one-step operations on what they
\* stored.
SubmitNext ==
    \/ SubmitAnyForm
    \/ Reject
    \/ MarkDelivered
    \/ DeleteRequests

SpecSubmit == Init /\ [][SubmitNext]_vars

\* Submissions under either form of the order number, and the approvals of
\* what they stored.
OrdersNext ==
    \/ SubmitAnyForm
    \/ ApproveRead("admin1")
    \/ ApproveAct("admin1")

SpecOrders == Init /\ [][OrdersNext]_vars

\* Every operation that gives a record a shipment or moves it along the
\* reverse track: submission, payment finalisation, approve and the sweep.
TrackedNext ==
    \/ SubmitExchange
    \/ SubmitReturn
    \/ FinalizeRead("callback")
    \/ FinalizePickup("callback")
    \/ FinalizeSave("callback")
    \/ ApproveRead("admin1")
    \/ ApproveAct("admin1")
    \/ \E s \in Sweepers : SyncStart(s)
    \/ \E s \in Sweepers : SyncStep(s)

SpecTracked == Init /\ [][TrackedNext]_vars

\* The admin console behind its authentication: the logins, the admin routes
\* called with any bearer token, and the later steps of approve and of the
\* sweep once the middleware has let them in.
AuthNext ==
    \/ \E password \in Passwords \cup {Null} : Login(password)
    \/ \E token \in BearerTokens : AdminOperation(token)
    \/ ApproveAct("admin1")
    \/ SyncStep("sweep1")

\* The rows a fee-waived submission leaves in the table, one per type and
\* answer of the aggregator, and the rows that await their payment.
SubmittedRows ==
    { createRequest([ type |-> type, orderNumber |-> <<"#", "1001">>,
                      reason |-> "defective",
                      paymentId |-> Null, paymentAmount |-> Null,
                      awbNumber |-> sr.awb_code, shipmentId |-> sr.shipment_id,
                      status |-> Null ]) : type \in Types, sr \in SrResponses }

StoredRows == SubmittedRows \cup { AwaitingPayment(type) : type \in Types }

\* A deployment with or without an admin password, and a table that is empty
\* or holds one return request.
InitAuth ==
    /\ \/ store = << >>
       \/ \E id \in RequestIds, row \in { r \in SubmittedRows : r.type = "return" } :
             store = [x \in {id} |-> row]
    /\ used = DOMAIN store
    /\ env \in [ SHIPROCKET_EMAIL : BOOLEAN,
                  ADMIN_PASSWORD : {AdminPassword, Null},
                  RAZORPAY_WEBHOOK_SECRET : {WebhookSecret} ]
    /\ created = [id \in RequestIds |-> NothingCreated]
    /\ calls = [id \in RequestIds |-> 0]
    /\ fin = [f \in Finalizers |-> IdleFin]
    /\ adm = [a \in Admins |-> IdleAdm]
    /\ sync = [s \in Sweepers |-> IdleSync]
    /\ response = NoAnswer
    /\ storage = [adminTokens |-> {}]
    /\ carrier = [id \in RequestIds |-> 1]
    /\ lookup = IdleLookup
    /\ shiprocket = ColdStart

SpecAuth == InitAuth /\ [][AuthNext]_vars

SweepIds == {"REQ-1", "REQ-2"}

\* A table of two requests and nothing in flight.
InitSweep ==
    /\ store \in [SweepIds -> StoredRows]
    /\ env = [ SHIPROCKET_EMAIL |-> TRUE, ADMIN_PASSWORD |-> AdminPassword,
               RAZORPAY_WEBHOOK_SECRET |-> WebhookSecret ]
    /\ created = [id \in SweepIds |-> NothingCreated]
    /\ calls = [id \in SweepIds |-> 0]
    /\ used = SweepIds
    /\ fin = [f \in Finalizers |-> IdleFin]
    /\ adm = [a \in Admins |-> IdleAdm]
    /\ sync = [s \in Sweepers |-> IdleSync]
    /\ response = NoAnswer
    /\ storage = [adminTokens |-> {}]
    /\ carrier = [id \in SweepIds |-> 1]
    /\ lookup = IdleLookup
    /\ shiprocket = ColdStart

\* One sweep over a batch of two, with lookups and writes that may fail, and
\* the admin's one-step status changes on the first request.
SweepNext ==
    \/ SyncStart("sweep1")
    \/ SyncStepUnreliable("sweep1")
    \/ Reject
    \/ MarkDelivered

SpecSweep == InitSweep /\ [][SweepNext]_vars

\* Sweeps over a batch of two whose lookups answer with any status text.
ClassifyNext ==
    \/ SyncStart("sweep1")
    \/ SyncClassify("sweep1")

SpecClassify == InitSweep /\ [][ClassifyNext]_vars

\* A table of two requests and a carrier whose reports on them stay as they
\* are.
InitSettle ==
    /\ store \in [SweepIds -> StoredRows]
    /\ env = [ SHIPROCKET_EMAIL |-> TRUE, ADMIN_PASSWORD |-> AdminPassword,
               RAZORPAY_WEBHOOK_SECRET |-> WebhookSecret ]
    /\ created = [id \in SweepIds |-> NothingCreated]
    /\ calls = [id \in SweepIds |-> 0]
    /\ used = SweepIds
    /\ fin = [f \in Finalizers |-> IdleFin]
    /\ adm = [a \in Admins |-> IdleAdm]
    /\ sync = [s \in Sweepers |-> IdleSync]
    /\ response = NoAnswer
    /\ storage = [adminTokens |-> {}]
    /\ carrier \in [SweepIds -> 1..Len(CarrierReports)]
    /\ lookup = IdleLookup
    /\ shiprocket = ColdStart

\* Sweep after sweep, with nothing else touching the table.
SettleNext ==
    \/ SyncStart("sweep1")
    \/ SyncReported("sweep1")

SpecSettle == InitSettle /\ [][SettleNext]_vars

RacingSweepers == {"sweep1", "sweep2"}

\* One request with a reverse shipment at the carrier, and two sweeps.
InitRace ==
    /\ \E id \in RequestIds :
          /\ \E row \in { r \in SubmittedRows : Truthy(r.shipmentId) } :
                store = [x \in {id} |-> row]
          /\ used = {id}
    /\ env = [ SHIPROCKET_EMAIL |-> TRUE, ADMIN_PASSWORD |-> AdminPassword,
               RAZORPAY_WEBHOOK_SECRET |-> WebhookSecret ]
    /\ created = [id \in RequestIds |-> [NothingCreated EXCEPT !.returns = 1]]
    /\ calls = [id \in RequestIds |-> 0]
    /\ fin = [f \in Finalizers |-> IdleFin]
    /\ adm = [a \in Admins |-> IdleAdm]
    /\ sync = [s \in RacingSweepers |-> IdleSync]
    /\ response = NoAnswer
    /\ storage = [adminTokens |-> {}]
    /\ carrier = [id \in RequestIds |-> 1]
    /\ lookup = IdleLookup
    /\ shiprocket = ColdStart

\* Two sweeps whose lookups and writes interleave while the carrier moves the
\* shipment on.
RaceNext ==
    \/ \E s \in RacingSweepers : SyncStart(s)
    \/ \E s \in RacingSweepers : SyncLookup(s)
    \/ \E s \in RacingSweepers : SyncWrite(s)
    \/ CarrierAdvances

SpecRace == InitRace /\ [][RaceNext]_vars

\* Sweeps whose lookups succeed, while the carrier moves the shipment on.
DeliveredNext ==
    \/ \E s \in RacingSweepers : SyncStart(s)
    \/ \E s \in RacingSweepers : SyncLookupAnswered(s)
    \/ \E s \in RacingSweepers : SyncWrite(s)
    \/ CarrierAdvances

\* The sweep is called again and again, and each of its awaits returns: a
\* sweep that can start does, and a sweep in flight takes its next step.  The
\* carrier is under no obligation.
\* The order lookup of the customer's form.
MatchNext ==
    \/ LookupFetch
    \/ LookupMatch

SpecMatch == Init /\ [][MatchNext]_vars

\* Two callers of getShiprocketToken and the clock.
TokenNext ==
    \/ \E c \in TokenCallers : GetShiprocketToken(c)
    \/ \E c \in TokenCallers : LoginIssued(c)
    \/ \E c \in TokenCallers : LoginAnswers(c)
    \/ Tick

SpecToken == Init /\ [][TokenNext]_vars

\* Exchanges, their approval at an aggregator that assigns AWBs at once, and
\* sweeps whose lookups succeed.
ForwardNext ==
    \/ SubmitExchange
    \/ ApproveRead("admin1")
    \/ ApproveActWithAwb("admin1")
    \/ SyncStart("sweep1")
    \/ SyncLookupAnswered("sweep1")
    \/ SyncWrite("sweep1")

\* The sweep is called again and again and each of its awaits returns.
SpecForward ==
    /\ Init
    /\ [][ForwardNext]_vars
    /\ WF_vars(SyncStart("sweep1"))
    /\ WF_vars(SyncLookupAnswered("sweep1"))
    /\ WF_vars(SyncWrite("sweep1"))

SpecDelivered ==
    /\ InitRace
    /\ [][DeliveredNext]_vars
    /\ \A s \in RacingSweepers :
          /\ WF_vars(SyncStart(s))
          /\ WF_vars(SyncLookupAnswered(s))
          /\ WF_vars(SyncWrite(s))

----------------------------------------------------------------------------
(* Properties: payment finalisation (checked under SpecPayment) *)

\* finalizeRequestAfterPayment returned success for requestId after doing the
\* work (not through the alreadyProcessed early return).
Finalized(requestId) ==
    /\ response.handler = "finalize"
    /\ response.requestId = requestId
    /\ response.result = "success"
    /\ ~response.alreadyProcessed

C6_SubmitThenConfirm ==
    \A r \in used :
        ( /\ Found(r)
          /\ store[r].type = "return"
          /\ store[r].reason = "changed_mind"
          /\ store[r].paymentId = Null
          /\ store[r].status \in {"waiting_payment", "pending", "scheduled"}
          /\ response.handler = "finalize"
          /\ response.requestId = r
          /\ response.result = "success" )
        => /\ store[r].status \in {"pending", "scheduled"}
           /\ created[r].returns <= 1
           /\ env.SHIPROCKET_EMAIL => calls[r] = 1

\* C7: right after a submission with a reason that is not fee-waived and no
\* paymentId, the persisted record has status waiting_payment and no reverse
\* pickup exists for it.
C7_UnpaidIsWaitingPayment ==
    \A r \in RequestIds :
        ( /\ response = Answer("submit", r, "success")
          /\ ~isFeeWaived(store[r].reason)
          /\ store[r].paymentId = Null )
        => /\ store[r].status = "waiting_payment"
           /\ created[r].returns = 0

\* C8: a confirmPayment call made right after a call that finalized the same
\* request is a no-op: the stored records stay as the first call left them, no
\* pickup creation is called and none is started.
C8_SecondConfirmIsNoOp ==
    [][ \A f \in Finalizers, r \in RequestIds, p \in PaymentIds, a \in PaymentAmounts :
          (Finalized(r) /\ finalizeRequestAfterPayment(f, r, p, a))
          => /\ store' = store
             /\ created' = created
             /\ calls' = calls
             /\ fin' = fin ]_vars

\* C8 happens: the second call has answered alreadyProcessed on a request the
\* first call scheduled with its one pickup creation.
C8_Witness ==
    \E r \in RequestIds :
        /\ response.handler = "finalize" /\ response.requestId = r
        /\ response.alreadyProcessed
        /\ Found(r) /\ store[r].status = "scheduled"
        /\ calls[r] = 1 /\ created[r].returns = 1

\* C9: confirmPayment on a stored request whose status is not waiting_payment
\* changes no record, creates nothing at the aggregator or the commerce
\* platform, starts no call to them, and reports success.
C9_ConfirmOnProcessedIsNoOp ==
    [][ \A f \in Finalizers, r \in RequestIds, p \in PaymentIds, a \in PaymentAmounts :
          ( /\ Found(r)
            /\ store[r].status # "waiting_payment"
            /\ finalizeRequestAfterPayment(f, r, p, a) )
          => /\ store' = store
             /\ created' = created
             /\ calls' = calls
             /\ fin' = fin
             /\ response'.result = "success" ]_vars

\* C9 happens: confirmPayment has answered on a rejected request that was
\* never finalized.
C9_Witness ==
    \E r \in RequestIds :
        /\ response.handler = "finalize" /\ response.requestId = r
        /\ response.alreadyProcessed
        /\ Found(r) /\ store[r].status = "rejected"
        /\ calls[r] = 0

\* C10: when a confirmPayment that found the request in waiting_payment
\* completes, the stored status is scheduled if the pickup creation returned a
\* shipment id and pending otherwise (no answer, or aggregator not
\* configured); it is not waiting_payment.
C10_StatusAfterConfirm ==
    [][ \A f \in Finalizers :
          (FinalizeSave(f) /\ Found(fin[f].requestId))
          => store'[fin[f].requestId].status =
                IF env.SHIPROCKET_EMAIL /\ Truthy(fin[f].srResponse.shipment_id)
                THEN "scheduled" ELSE "pending" ]_vars

\* C10 happens: a finalizing call has completed whose pickup creation gave no
\* shipment, and the request is pending.
C10_Witness ==
    \E r \in RequestIds :
        /\ Finalized(r)
        /\ Found(r) /\ store[r].status = "pending"
        /\ calls[r] = 1 /\ created[r].returns = 0

C12_PaymentIdOnlyIfVerified ==
    [][ \A r \in DOMAIN store' :
          Truthy(store'[r].paymentId)
          => \/ r \in DOMAIN store /\ store[r].paymentId = store'[r].paymentId
             \/ \E type \in Types, orderNumber \in ShopifyOrderNames,
                   reason \in Reasons, gw \in GatewayStatuses,
                   sr \in SrResponses, paymentId \in PaymentIds,
                   paymentAmount \in PaymentAmounts :
                   /\ SubmitRequest(r, type, orderNumber, reason, paymentId, paymentAmount, gw, sr)
                   /\ isFeeWaived(reason) \/ gw \in {"captured", "authorized"} ]_vars

\* C12 happens: a record with a fee due holds the paymentId the gateway
\* verified at submission, and a confirmPayment has since been answered on it.
C12_Witness ==
    \E r \in used :
        /\ Found(r)
        /\ ~isFeeWaived(store[r].reason)
        /\ store[r].paymentId \in PaymentIds
        /\ response.handler = "finalize" /\ response.requestId = r
        /\ response.result = "success"

\* C25: a submission with a fee due and a paymentId that the gateway does not
\* report as captured or authorized (another status, or a lookup that fails)
\* answers an error, stores no record and creates no pickup.
C25_UnverifiedPaymentRejected ==
    [][ \A r \in RequestIds, type \in Types, orderNumber \in ShopifyOrderNames,
           reason \in Reasons,
           paymentId \in PaymentIds, paymentAmount \in PaymentAmounts,
           gw \in GatewayStatuses, sr \in SrResponses :
          ( /\ response'.handler = "submit"
            /\ SubmitRequest(r, type, orderNumber, reason, paymentId, paymentAmount, gw, sr)
            /\ reason \notin {"defective", "wrong_item"}
            /\ gw \notin {"captured", "authorized"} )
          => /\ response'.handler = "submit" /\ response'.result = "error"
             /\ store' = store
             /\ created' = created
             /\ calls' = calls ]_vars

\* C25 happens: a submission has just been answered with an error while the
\* table holds no request.
C25_Witness ==
    /\ response.handler = "submit" /\ response.result = "error"
    /\ store = << >>
    /\ \A r \in RequestIds : created[r] = NothingCreated

\* C26: a fee-waived submission answers success whether or not the pickup
\* could be scheduled, and the stored status is scheduled exactly when the
\* aggregator created a reverse pickup (it returned a shipment id, with or
\* without an AWB) and pending exactly when it did not.
C26_FeeWaivedStatusFollowsPickup ==
    [][ \A r \in RequestIds, type \in Types, orderNumber \in ShopifyOrderNames,
           reason \in {"defective", "wrong_item"},
           paymentId \in PaymentIds \cup {Null},
           paymentAmount \in PaymentAmounts \cup {Null},
           gw \in GatewayStatuses, sr \in SrResponses :
          SubmitRequest(r, type, orderNumber, reason, paymentId, paymentAmount, gw, sr)
          => LET pickupCreated == env.SHIPROCKET_EMAIL /\ Truthy(sr.shipment_id)
             IN  /\ response' = Answer("submit", r, "success")
                 /\ r \in DOMAIN store'
                 /\ store'[r].status = "scheduled" <=> pickupCreated
                 /\ store'[r].status = "pending" <=> ~pickupCreated ]_vars

----------------------------------------------------------------------------
(* Properties: the admin console (checked under SpecAdmin) *)

\* C2: whatever the sequence of operations on a request, the aggregator
\* creates a reverse pickup for it at most once.
C2_ReversePickupAtMostOnce ==
    \A r \in RequestIds : created[r].returns <= 1

\* C3: whatever the sequence and interleaving of admin operations on a
\* submitted request, at most one replacement order and at most one forward
\* shipment are created for it.
C3_ResolutionAtMostOnce ==
    \A r \in used : created[r].orders <= 1 /\ created[r].forwards <= 1

\* C13: a request submitted with a fee-waived reason never has status
\* waiting_payment, at creation or after any later operation on it.
C13_FeeWaivedNeverAwaitsPayment ==
    \A r \in used :
        (Found(r) /\ isFeeWaived(store[r].reason))
        => store[r].status # "waiting_payment"

\* C13 happens: a fee-waived request submitted without a paymentId has been
\* created and then approved.
C13_Witness ==
    \E r \in used :
        /\ Found(r) /\ isFeeWaived(store[r].reason)
        /\ store[r].paymentId = Null
        /\ store[r].status = "approved"

\* C14: an approve call that read an exchange request in pending, acts while
\* it is still pending and reports success, has created the replacement order
\* and leaves the stored status approved.
C14_ApprovePendingExchange ==
    [][ \A a \in Admins :
          ( /\ ApproveAct(a)
            /\ response'.result = "success"
            /\ adm[a].branch = "pickup"
            /\ Found(adm[a].requestId)
            /\ store[adm[a].requestId].type = "exchange"
            /\ store[adm[a].requestId].status = "pending" )
          => /\ store'[adm[a].requestId].status = "approved"
             /\ created'[adm[a].requestId].orders >= 1 ]_vars

\* C16: approve on an existing request reports success and stores status
\* approved with approvedAt stamped, whatever the external creation calls
\* answered.
C16_ApproveNeverFails ==
    [][ \A a \in Admins :
          (ApproveAct(a) /\ Found(adm[a].requestId))
          => /\ response'.result = "success"
             /\ store'[adm[a].requestId].status = "approved"
             /\ store'[adm[a].requestId].approvedAt = Stamp ]_vars

\* C17: an approve call never moves a submitted request stored as
\* waiting_payment, scheduled, in_transit or rejected to approved.
C17_ApprovedOnlyFromGatedStatus ==
    [][ \A a \in Admins :
          ( /\ ApproveAct(a)
            /\ Found(adm[a].requestId)
            /\ adm[a].requestId \in used
            /\ store[adm[a].requestId].status \in
                  {"waiting_payment", "scheduled", "in_transit", "rejected"} )
          => store'[adm[a].requestId].status # "approved" ]_vars

\* C18: reject on an existing request sets status rejected and stamps
\* rejectedAt, changes no other field of it but adminNotes, changes no other
\* record, creates nothing at the external systems and starts no call to them.
C18_RejectFrame ==
    [][ \A r \in RequestIds :
          response' = Answer("reject", r, "success")
          => /\ Found(r)
             /\ store' = [store EXCEPT ![r] =
                            [@ EXCEPT !.status = "rejected",
                                      !.rejectedAt = Stamp,
                                      !.adminNotes = store'[r].adminNotes]]
             /\ created' = created
             /\ calls' = calls
             /\ fin' = fin /\ adm' = adm /\ sync' = sync ]_vars

\* C18 happens: a request that was approved, with its replacement order
\* created, has been rejected.
C18_Witness ==
    \E r \in RequestIds :
        /\ response = Answer("reject", r, "success")
        /\ store[r].status = "rejected"
        /\ store[r].approvedAt = Stamp
        /\ created[r].orders = 1

\* C19: right after markDelivered on an existing request, the stored record
\* has status delivered and deliveredAt stamped.
C19_MarkDeliveredStamps ==
    \A r \in RequestIds :
        response = Answer("mark-delivered", r, "success")
        => /\ store[r].status = "delivered"
           /\ store[r].deliveredAt = Stamp

----------------------------------------------------------------------------
(* Properties: approve calls in sequence (checked under SpecApprove) *)

\* C15: with approve calls made one after the other on an exchange request,
\* at most one replacement order and one forward shipment are created, and a
\* call that read the request as approved creates nothing and leaves it
\* approved.
C15_ApproveTwiceInSequence ==
    [][ /\ \A r \in RequestIds :
             created'[r].orders <= 1 /\ created'[r].forwards <= 1
        /\ ( /\ ApproveAct("admin1")
             /\ adm["admin1"].branch = "approve"
             /\ Found(adm["admin1"].requestId)
             /\ store[adm["admin1"].requestId].type = "exchange" )
           => /\ created' = created
              /\ store'[adm["admin1"].requestId].status = "approved" ]_vars

\* C15 happens: a second approve has answered on an exchange request whose
\* first approve created the replacement order and the forward shipment.
C15_Witness ==
    \E r \in used :
        /\ response = Answer("approve", r, "success")
        /\ Found(r) /\ store[r].type = "exchange" /\ store[r].status = "approved"
        /\ store[r].adminNotes = <<"note">>
        /\ created[r].orders = 1 /\ created[r].forwards = 1

----------------------------------------------------------------------------
(* Properties: the status sync (checked under SpecSync) *)

\* C4: a write of an in-flight sweep never changes the status of a request
\* that approve or reject has already moved to approved or rejected.
C4_SweepKeepsTerminalStatus ==
    [][ \A s \in Sweepers, r \in RequestIds :
          ( /\ Found(r)
            /\ store[r].status \in {"approved", "rejected"}
            /\ SyncStep(s) )
          => store'[r].status = store[r].status ]_vars

\* The stages of the reverse track, in order.
Stage(status) ==
    CASE status = "scheduled"  -> 1
      [] status = "picked_up"  -> 2
      [] status = "in_transit" -> 3
      [] status = "delivered"  -> 4

\* C5: a sweep that read a request at some stage of the reverse track, and
\* writes it while it is still at that stage, never writes an earlier stage.
C5_SweepNeverMovesBack ==
    [][ \A s \in Sweepers, r \in RequestIds :
          ( /\ SyncStep(s)
            /\ Head(sync[s].todo) = r
            /\ Found(r)
            /\ store[r].status = sync[s].snapshot[r].status
            /\ store[r].status \in {"scheduled", "picked_up", "in_transit", "delivered"}
            /\ store'[r].status \in {"scheduled", "picked_up", "in_transit", "delivered"} )
          => Stage(store'[r].status) >= Stage(store[r].status) ]_vars

\* C20: whenever a step of the sweep changes a request's status to picked_up,
\* in_transit or delivered, the stored record then has pickedUpAt,
\* inTransitAt or deliveredAt set, respectively.
C20_SweepStampsStage ==
    [][ \A s \in Sweepers, r \in RequestIds :
          ( /\ SyncStep(s)
            /\ Head(sync[s].todo) = r
            /\ Found(r)
            /\ store'[r].status # store[r].status )
          => /\ store'[r].status = "picked_up" => store'[r].pickedUpAt = Stamp
             /\ store'[r].status = "in_transit" => store'[r].inTransitAt = Stamp
             /\ store'[r].status = "delivered" => store'[r].deliveredAt = Stamp ]_vars

----------------------------------------------------------------------------
(* Properties: operations on a request id (checked under SpecLookup) *)

\* The call answered not-found for requestId and did nothing else: no record
\* was created or changed, nothing was created at the external systems, no
\* pickup creation call was made and no invocation was left in flight.
NotFoundOnly(handler, requestId) ==
    /\ response' = Answer(handler, requestId, "not_found")
    /\ store' = store
    /\ created' = created
    /\ calls' = calls
    /\ fin' = fin
    /\ adm' = adm

----------------------------------------------------------------------------
(* Properties: one sweep over a batch (checked under SpecSweep) *)

OutsideSweep(r) ==
    \/ r.status \in {"delivered", "approved", "rejected", "waiting_payment"}
    \/ ~Truthy(r.awbNumber) /\ ~Truthy(r.shipmentId)

\* C23: a request that is outside the sweep when the sweep selects its batch
\* is not put on the list, and a turn of the loop looks up and writes only
\* the request at the head of the list, which was inside the sweep when it
\* was selected.
C23_SweepLeavesOthersAlone ==
    [][ \A s \in Sweepers :
          /\ ( sync[s].pc = "idle" /\ sync'[s].pc = "loop" )
             => \A id \in DOMAIN store :
                   OutsideSweep(store[id])
                   => /\ id \notin DOMAIN sync'[s].snapshot
                      /\ \A i \in 1..Len(sync'[s].todo) : sync'[s].todo[i] # id
          /\ ( sync[s].pc = "loop" /\ sync'[s] # sync[s] )
             => /\ Head(sync[s].todo) \in DOMAIN sync[s].snapshot
                /\ ~OutsideSweep(sync[s].snapshot[Head(sync[s].todo)])
                /\ \A id \in DOMAIN store \ {Head(sync[s].todo)} : store'[id] = store[id]
                /\ \A i \in 1..Len(sync'[s].todo) :
                      \E j \in 1..Len(sync[s].todo) : sync[s].todo[j] = sync'[s].todo[i] ]_vars

\* C23 happens: a sweep has answered after writing one request, while the
\* other request, which has no AWB and no shipment id, is as it was submitted.
C23_Witness ==
    /\ response = SyncAnswer(1)
    /\ \E id \in DOMAIN store :
          /\ store[id] \in SubmittedRows
          /\ ~Truthy(store[id].awbNumber) /\ ~Truthy(store[id].shipmentId)
    /\ \E id \in DOMAIN store : store[id].pickedUpAt = Null /\ store[id].status = "picked_up"

----------------------------------------------------------------------------
(* Properties: two sweeps at once (checked under SpecRace) *)

\* C22: with two sweeps running at once and the carrier moving the shipment
\* on between their lookups, no write of a sweep puts the request in an
\* earlier stage than the one the other sweep has stored from its lookup.
C22_RacingSweepsNeverMoveBack ==
    [][ \A s \in RacingSweepers, r \in RequestIds :
          ( /\ SyncWrite(s)
            /\ Head(sync[s].todo) = r
            /\ Found(r)
            /\ store[r].status \in {"scheduled", "picked_up", "in_transit", "delivered"}
            /\ store'[r].status \in {"scheduled", "picked_up", "in_transit", "delivered"} )
          => Stage(store'[r].status) >= Stage(store[r].status) ]_vars

----------------------------------------------------------------------------
(* Properties: the webhook (checked under SpecWebhook) *)

\* C27: with a webhook secret configured, a webhook call whose signature
\* header is missing or is not the HMAC-SHA256 of the raw body under that
\* secret does not invoke confirmPayment and changes no request.
C27_WebhookNeedsSignature ==
    [][ \A signature \in SignatureHeaders, rawBody \in RawBodies :
          ( /\ RazorpayWebhook(signature, rawBody)
            /\ Truthy(env.RAZORPAY_WEBHOOK_SECRET)
            /\ signature # HmacSha256(env.RAZORPAY_WEBHOOK_SECRET, rawBody) )
          => /\ fin' = fin
             /\ store' = store
             /\ response'.handler # "finalize" ]_vars

----------------------------------------------------------------------------
(* Properties: admin authentication (checked under SpecAuth) *)

\* C28: a login issues a token only when its password is the configured
\* admin secret, and an admin route called with a bearer token that is
\* neither the configured admin secret nor a token issued by a login answers
\* unauthorized and neither reads nor changes the store.
C28_AdminNeedsSecret ==
    [][ /\ \A password \in Passwords \cup {Null} :
              ( Login(password) /\ storage' # storage )
              => /\ Truthy(env.ADMIN_PASSWORD)
                 /\ password = env.ADMIN_PASSWORD
        /\ \A token \in BearerTokens :
              ( /\ AdminOperation(token)
                /\ ~( /\ Truthy(token)
                      /\ \/ Truthy(env.ADMIN_PASSWORD) /\ token = env.ADMIN_PASSWORD
                         \/ token \in storage.adminTokens ) )
              => /\ response'.result = "unauthorized"
                 /\ store' = store
                 /\ adm' = adm
                 /\ sync' = sync ]_vars

----------------------------------------------------------------------------
(* Properties: the submitted form (checked under SpecSubmit) *)

\* C24: a submission without an order number, without items (absent, empty
\* or unparsable) or without a reason answers an error, stores no record and
\* creates no pickup.
C24_IncompleteFormRejected ==
    [][ \A r \in RequestIds, type \in Types,
           orderNumber \in OrderNumbers \cup {NoOrderNumber}, items \in ItemsInputs,
           reason \in Reasons \cup {Null}, paymentId \in PaymentIds \cup {Null},
           paymentAmount \in PaymentAmounts \cup {Null},
           gw \in GatewayStatuses, sr \in SrResponses :
          ( /\ SubmitForm(r, type, orderNumber, items, reason,
                          paymentId, paymentAmount, gw, sr)
            /\ \/ orderNumber = NoOrderNumber
               \/ items \in {"absent", "unparsable", "empty"}
               \/ reason = Null )
          => /\ response'.handler = "submit" /\ response'.result = "error"
             /\ store' = store
             /\ created' = created ]_vars

\* C30: a submission that succeeds answers with a requestId that no earlier
\* submission was given, deleted requests included, and reject and
\* mark-delivered leave the ids of the stored records as they are.
C30_RequestIdsAreFresh ==
    [][ /\ \A r \in RequestIds :
              response' = Answer("submit", r, "success") => r \notin used
        /\ response'.handler \in {"reject", "mark-delivered"}
              => DOMAIN store' = DOMAIN store ]_vars

----------------------------------------------------------------------------
(* Properties: the order lookups (checked under SpecOrders) *)

\* C36: the order lookup of a lifecycle operation finds the order under the
\* alternate form of its number when the first form returns none: an approve
\* that is about to create the pickup of a request whose order the shop has
\* under either form gets that order.
C36_ApproveTriesBothForms ==
    \A a \in Admins :
        ( /\ adm[a].pc = "act" /\ adm[a].branch = "pickup"
          /\ FetchOriginalOrder(adm[a].orderNumber) )
        => FetchOrderForApproval(adm[a].orderNumber)

\* C38: an approve of a pending request that cannot create the reverse pickup
\* (the order lookup fails, the aggregator is not configured, or it returns
\* no shipment id) answers an error and leaves the table as it was, the
\* record still pending with its notes, shipmentId and awbNumber, and creates
\* no replacement order and no forward shipment.
C38_FailedPickupChangesNothing ==
    [][ \A a \in Admins, notes \in NoteInputs, orderOk \in BOOLEAN, sr \in SrResponses :
          LET r          == adm[a].requestId
              orderFound == orderOk /\ FetchOrderForApproval(adm[a].orderNumber)
          IN  ( /\ adm[a].pc = "act" /\ adm[a].branch = "pickup"
                /\ adm'[a].pc = "idle"
                /\ ApprovePending(a, notes, orderFound, sr)
                /\ ~(env.SHIPROCKET_EMAIL /\ orderFound /\ Truthy(sr.shipment_id)) )
              => /\ response' = Answer("approve", r, "error")
                 /\ store' = store
                 /\ Found(r) => store'[r].status = "pending"
                 /\ created'[r].orders = created[r].orders
                 /\ created'[r].forwards = created[r].forwards ]_vars

\* C38 happens: an approve has just answered an error for a request that is
\* still pending, without a shipment, and nothing was created for it.
C38_Witness ==
    \E r \in RequestIds :
        /\ response = Answer("approve", r, "error")
        /\ Found(r) /\ store[r].status = "pending"
        /\ ~Truthy(store[r].shipmentId) /\ ~Truthy(store[r].awbNumber)
        /\ store[r].adminNotes = << >>
        /\ created[r] = NothingCreated

----------------------------------------------------------------------------
(* Properties: shipment identifiers (checked under SpecTracked) *)

\* C39: every stored record whose status is scheduled, picked_up or
\* in_transit has a shipmentId or an awbNumber, and a record that awaits its
\* payment has neither.
C39_TrackedHasShipment ==
    \A r \in DOMAIN store :
        /\ store[r].status \in {"scheduled", "picked_up", "in_transit"}
              => Truthy(store[r].shipmentId) \/ Truthy(store[r].awbNumber)
        /\ store[r].status = "waiting_payment"
              => ~Truthy(store[r].shipmentId) /\ ~Truthy(store[r].awbNumber)

\* C39 happens: a sweep has moved a record along the track that holds a
\* shipmentId and no awbNumber.
C39_Witness ==
    \E r \in DOMAIN store :
        /\ store[r].status \in {"picked_up", "in_transit"}
        /\ Truthy(store[r].shipmentId) /\ ~Truthy(store[r].awbNumber)
        /\ response.handler = "sync-status"

----------------------------------------------------------------------------
(* Properties: pickups and the records that hold them (SpecPayment) *)

----------------------------------------------------------------------------
(* Properties: the classification of carrier texts (SpecClassify) *)

\* The statuses in the order their keywords are tried, each with its
\* keywords.
KeywordGroups ==
    << [ status |-> "delivered",
         keywords |-> { <<"DELIVERED">>, <<"CLOSED">>, <<"RETURN", "RECEIVED">> } ],
       [ status |-> "picked_up",
         keywords |-> { <<"PICKED", "UP">>, <<"PICKUP", "GENERATED">> } ],
       [ status |-> "in_transit",
         keywords |-> { <<"IN", "TRANSIT">>, <<"SHIPPED">>, <<"OUT", "FOR", "DELIVERY">> } ],
       [ status |-> "scheduled",
         keywords |-> { <<"SCHEDULED">>, <<"GENERATED">>, <<"AWB", "ASSIGNED">> } ],
       [ status |-> "rejected",
         keywords |-> { <<"RTO">>, <<"REJECTED">>, <<"CANCELLED">> } ] >>

\* The status of the first group one of whose keywords the upper-case text
\* holds, or the current status when no group has one.
Classified(current, upperText) ==
    LET hits == { i \in 1..Len(KeywordGroups) :
                    \E k \in KeywordGroups[i].keywords : includes(upperText, k) }
    IN  IF hits = {} THEN current
        ELSE KeywordGroups[CHOOSE i \in hits : \A j \in hits : i <= j].status

\* C34: the sweep classifies the carrier's text by keyword, whatever its
\* case, the first match winning in the order delivered, picked_up,
\* in_transit, scheduled, rejected; PICKUP GENERATED is picked_up, not
\* scheduled.  A turn of the sweep on a text leaves the record in the status
\* so classified.
C34_FirstKeywordWins ==
    [][ \A s \in Sweepers, text \in StatusTexts :
          ( /\ sync[s].pc = "loop"
            /\ SyncTurn(s, TrackingWith(text), "ok") )
          => LET r        == Head(sync[s].todo)
                 req      == sync[s].snapshot[r]
                 expected == Classified(req.status, toUpperCase(text))
             IN  /\ store'[r].status = expected
                 /\ \A V \in StatusTextVariants : text \in V =>
                       \A v \in V : MapReturnStatus(req.status, v) = expected
                 /\ MapReturnStatus(req.status, <<"PICKUP", "GENERATED">>) = "picked_up" ]_vars

\* C34 happens: one sweep has classified the texts of two records, one as
\* picked_up and one as rejected, and answered with two updates.
C34_Witness ==
    /\ response = SyncAnswer(2)
    /\ \E r1, r2 \in DOMAIN store :
          /\ store[r1].status = "picked_up"
          /\ store[r2].status = "rejected"

----------------------------------------------------------------------------
(* Properties: repeated sweeps (SpecSettle) *)

\* No record the sweep selects would be written on the carrier's report.
Settled ==
    \A r \in DOMAIN store :
        IsActive(store[r]) => SyncUpdates(SyncView(store[r]), ReportedLookup(r)) = NoUpdates

\* The count of the sweep in flight, or the count it answered with.
Counted(s) == IF sync[s].pc = "idle" THEN response.updated ELSE sync[s].updated

\* C35: the sweep writes a record, and counts it, only if the status mapped
\* from the carrier's text differs from the stored status or the carrier's AWB
\* differs from the stored AWB, an unmatched text mapping to the stored
\* status; hence once a sweep has ended, every later sweep against the same
\* carrier state writes nothing and reports 0 updates.
C35_SecondSweepWritesNothing ==
    /\ [][ \A s \in Sweepers :
             (sync[s].pc = "loop" /\ sync'[s] # sync[s])
             => LET r       == Head(sync[s].todo)
                    req     == sync[s].snapshot[r]
                    report  == ReportedLookup(r)
                    mapped  == MapReturnStatus(req.status, report.current_status)
                    differs == \/ mapped # req.status
                               \/ Truthy(report.awb_code) /\ report.awb_code # req.awbNumber
                IN  /\ differs => store' # store /\ Counted(s)' = sync[s].updated + 1
                    /\ ~differs => store' = store /\ Counted(s)' = sync[s].updated ]_vars
    /\ [](response.handler = "sync-status"
            => [](/\ Settled
                  /\ \A s \in Sweepers : sync[s].pc = "loop" =>
                        [](response.handler = "sync-status" => response.updated = 0)))

\* C35 happens: a sweep has answered with 0 updates over a table in which
\* an earlier sweep moved a record to picked_up or in_transit, where the
\* sweep still selects it, and replaced its AWB.
C35_Witness ==
    /\ response = SyncAnswer(0)
    /\ \E r \in DOMAIN store :
          /\ store[r].status \in {"picked_up", "in_transit"}
          /\ store[r].awbNumber = "AWB2"

----------------------------------------------------------------------------
(* Properties: the sweep reaches delivered (SpecDelivered) *)

\* C33: a request on the reverse track with a tracking identifier, for which
\* the carrier keeps reporting delivered while sweeps keep running with
\* their lookups succeeding, eventually has the stored status delivered, and
\* the sweeps then leave it so.
C33_DeliveredIsReached ==
    \A r \in RequestIds :
        <>[](carrier[r] = Len(CarrierTrack)) => <>[](Found(r) /\ store[r].status = "delivered")

\* C33 happens: the record is delivered at a carrier that reports delivered,
\* and a sweep that ran afterwards found nothing to do.
C33_Witness ==
    \E r \in RequestIds :
        /\ Found(r) /\ store[r].status = "delivered"
        /\ carrier[r] = Len(CarrierTrack)
        /\ response = SyncAnswer(0)
        /\ \A s \in RacingSweepers : sync[s].pc = "idle"

----------------------------------------------------------------------------
(* Properties: the forward shipment (SpecForward) *)

\* C32: an approved exchange whose forward shipment was created with an
\* AWB, swept again and again while the carrier reports the forward shipment
\* delivered, eventually has the stored forwardStatus delivered.
C32_ForwardDeliveredIsReached ==
    \A r \in RequestIds :
        []( ( /\ Found(r) /\ store[r].type = "exchange"
              /\ store[r].status = "approved"
              /\ created[r].forwards >= 1 )
            => <>(Found(r) /\ store[r].forwardStatus = "delivered") )

----------------------------------------------------------------------------
(* Properties: the order lookup's match (SpecMatch) *)

\* The order of the example: email a@x.com, phone +91-98765-43210.
ExampleOrder ==
    [ email |-> <<"a", "@", "x", ".", "c", "o", "m">>,
      phone |-> <<"+", "9", "1", "-", "9", "8", "7", "6", "5", "-", "4", "3", "2", "1", "0">>,
      shipping_phone |-> << >> ]

\* The digit strings of the order's two phones.
OrderPhones(o) == { Digits(o.phone), Digits(o.shipping_phone) }

\* The rule as stated, on what was supplied and what the order has: the
\* email equal ignoring case, or the last 10 digits equal.
StatedMatch(email, o) ==
    LET supplied == trim(toLowerCase(email))
        digits   == Digits(supplied)
    IN  \/ supplied # << >> /\ supplied = toLowerCase(o.email)
        \/ /\ digits # << >>
           /\ \E phone \in OrderPhones(o) :
                 /\ phone # << >>
                 /\ sliceLast(phone, PhoneDigits) = sliceLast(digits, PhoneDigits)

\* The rule with its condition: the phones are compared only when both have
\* at least 10 digits.
StatedMatchOfFullNumbers(email, o) ==
    LET supplied == trim(toLowerCase(email))
        digits   == Digits(supplied)
    IN  \/ supplied # << >> /\ supplied = toLowerCase(o.email)
        \/ /\ Len(digits) >= PhoneDigits
           /\ \E phone \in OrderPhones(o) :
                 /\ Len(phone) >= PhoneDigits
                 /\ sliceLast(phone, PhoneDigits) = sliceLast(digits, PhoneDigits)

\* C31 as stated: the lookup matches the order if and only if the supplied
\* email equals the order's customer email ignoring case, or the last 10
\* digits of the supplied phone equal the last 10 digits of the customer
\* phone or of the shipping-address phone.
C31_MatchAsStated ==
    lookup.pc = "done"
    => (response.result = "success" <=> StatedMatch(lookup.email, lookup.order))

\* C31, amended: the lookup matches the order if and only if the supplied
\* value equals the order's customer email ignoring case, or it has at least
\* 10 digits and its last 10 digits are the last 10 digits of the customer
\* phone or of the shipping-address phone; for the order with a@x.com and
\* +91-98765-43210, A@X.com and 9876543210 match and 1234543210 does not.
C31_MatchOfFullNumbers ==
    /\ lookup.pc = "done"
       => (response.result = "success"
             <=> StatedMatchOfFullNumbers(lookup.email, lookup.order))
    /\ MatchesOrder(<<"A", "@", "X", ".", "c", "o", "m">>, ExampleOrder)
    /\ MatchesOrder(<<"9", "8", "7", "6", "5", "4", "3", "2", "1", "0">>, ExampleOrder)
    /\ ~MatchesOrder(<<"1", "2", "3", "4", "5", "4", "3", "2", "1", "0">>, ExampleOrder)

\* C31 happens: the order with phone +91-98765-43210 has been matched by
\* 9876543210.
C31_Witness ==
    /\ lookup.pc = "done"
    /\ lookup.email = <<"9", "8", "7", "6", "5", "4", "3", "2", "1", "0">>
    /\ lookup.order = ExampleOrder
    /\ response = Answer("lookup-order", Null, "success")

----------------------------------------------------------------------------
(* The aggregator token and its cache *)

\* A token is cached and its expiry lies ahead.
Fresh ==
    /\ shiprocket.shiprocketToken # 0
    /\ shiprocket.now < shiprocket.shiprocketTokenExpiry

\* The tokens the aggregator has issued.
Issued == 1..shiprocket.issued

\* Every caller has got its token.
AllReturned ==
    \A c \in TokenCallers : shiprocket.callers[c].pc = "returned"

\* C37: getShiprocketToken sends a login when, and only when, no token is
\* cached or the cached token's expiry has passed; otherwise the call returns
\* the cached token, with no login and the cache as it was. A refresh that succeeds
\* returns a token the aggregator issued and leaves it cached with an expiry
\* ahead of the clock; whenever all callers have returned, each holds an
\* issued token and the cached token is one of theirs.
C37_TokenIsCachedUntilExpiry ==
    [][ /\ \A c \in TokenCallers :
             LET before == shiprocket.callers[c]
                 after == shiprocket'.callers[c]
                 calling == before.pc \notin {"login", "issued"}
             IN  /\ (calling /\ after # before) => (after.pc = "login" <=> ~Fresh)
                 /\ (calling /\ Fresh /\ after # before) =>
                        /\ after = [pc |-> "returned", token |-> shiprocket.shiprocketToken]
                        /\ shiprocket'.issued = shiprocket.issued
                        /\ shiprocket'.shiprocketToken = shiprocket.shiprocketToken
                        /\ shiprocket'.shiprocketTokenExpiry = shiprocket.shiprocketTokenExpiry
                 /\ (before.pc = "issued" /\ after.pc = "returned") =>
                        /\ after.token \in Issued'
                        /\ shiprocket'.shiprocketToken = after.token
                        /\ shiprocket'.shiprocketTokenExpiry > shiprocket'.now
        /\ AllReturned' =>
             /\ \A c \in TokenCallers : shiprocket'.callers[c].token \in Issued'
             /\ \E c \in TokenCallers :
                   shiprocket'.shiprocketToken = shiprocket'.callers[c].token
      ]_vars

\* Two callers found no token cached and refreshed at the same time: each has
\* returned with a token of its own, and the cache holds the one issued first,
\* whose response came last.
C37_Witness ==
    /\ AllReturned
    /\ shiprocket.now = 0
    /\ shiprocket.issued = 2
    /\ shiprocket.callers["caller1"].token # shiprocket.callers["caller2"].token
    /\ shiprocket.shiprocketToken = 1
    /\ shiprocket.shiprocketTokenExpiry > shiprocket.now

====
